---- MODULE Spec2Model ----
(***************************************************************************)
(* A model of the triangle-mesh optimizer's library code: the mesh         *)
(* adjacency builders of mesh.h, the characteristic edge length of         *)
(* soup.cpp, the overdraw graph of overdraw.cpp and the optimize pipeline  *)
(* driven by the sample program.                                           *)
(*                                                                         *)
(* Indices are 0-based as in the C++ code; TLA+ sequences are 1-based, so  *)
(* element i of an Array is seq[i + 1].                                    *)
(***************************************************************************)
EXTENDS Integers, Sequences, FiniteSets, TLC

(***************************************************************************)
(* Bounds of the model.                                                    *)
(***************************************************************************)
MaxT == 2
MaxCoord == 2
MaxSteps == 2
MaxOD == 2
MaxRays == 1

\* a Soup::Triangle holds three vertex indices (int vi[3])
NumSlots == 3

\* vertex counts explored: up to the least count that admits a triangle
\* with three distinct indices
MaxV == NumSlots

VARIABLES
    nv,       \* Mesh: v().GetSize(), the number of vertices
    t,        \* Mesh: the triangle array t(), a sequence of <<i0, i1, i2>>
    vt,       \* the VTArray handed to ComputeVT / ComputeAE
    ae,       \* Mesh::ae_
    vv,       \* Mesh::vv_
    vtRet,    \* return value of the last ComputeVT (-1: not called yet)
    aeRet,    \* return value of the last ComputeAE (-1: not called yet)
    vvRet,    \* return value of the last ComputeVV (-1: not called yet)
    vtIn,     \* the vtOut argument as it was on entry to the last ComputeVT
    aeIn,     \* ae_ as it was on entry to the last ComputeAE
    vvIn,     \* vv_ as it was on entry to the last ComputeVV
    allocFailed, \* the adjacency call during which an allocation has failed, if any
    pv,       \* Cloud::pv of the soups: the x coordinate of each vertex
    pt,       \* Soup::pt, the triangle array of each soup
    r,        \* Soup::r, the stored resolution of each soup
    randq,    \* the function-local static of ComputeResolution, <<high, low>>
    nsteps,   \* how often randq has been advanced since the process started
    res,      \* the last call of ComputeResolution: arguments and outcome
    computed, \* per soup, the value its last sampling call has output, if any
    crashed,  \* the process has been terminated by a fault
    s_bInitialized, \* overdraw.cpp: static bool s_bInitialized
    s_pSoup,        \* overdraw.cpp: static Soup* s_pSoup
    rGraphOut,      \* the caller's Array<t_edge> handed to the overdraw module
    graphIn,        \* rGraphOut as it was on entry to the last graph computation
    fullgraph,      \* the overdraw table the last graph computation worked on
    odRet,          \* the result of the last graph computation
    odCall,         \* the last call of ODOverdrawGraph: its arguments and the state it met
    odInitCalled,   \* ODInit has been called and has returned TOOTLE_OK
    isInit,         \* the last call of ODIsInitialized: its result and the state it met
    soupRead,       \* the soup whose faces the last graph computation has read
    callerPc,       \* per caller of the overdraw module, how far it has got
    graphCaller,    \* the caller that started the last graph computation
    m_nTriangleCount, \* JRTMesh: the unsigned triangle count, <<high, low>>
    m_pTriangles,     \* JRTMesh: the triangle array as allocated by CreateMesh
    m_pFaceNormals,   \* JRTMesh: the face-normal array as allocated by CreateMesh
    m_pNormals,       \* JRTMesh: the per-vertex normals, "NULL" when there are none
    m_pPositions,     \* JRTMesh: the vertex positions
    jrtCall,          \* the last call on the JRTMesh: arguments and the state it met
    jrtFault,         \* an access outside the arrays has terminated the process
    jrtSteps,         \* how many calls the mesh has seen
    jrtLog,           \* the arrays as CreateMesh filled them and the pairs removed since
    cacheSize,        \* the cache size handed to the cache-efficiency meter
    meterIB,          \* the index buffer handed to the cache-efficiency meter
    meterRet,         \* the meter's result: vertex fetches and triangle count
    raysTraced,       \* the rays of the last overdraw table: each the faces hit, nearest first
    rayClusters,      \* the cluster id of every face handed to the ray tracer
    overdrawTable,    \* the table accumulated by the ray tracer
    objState,         \* Soup/Mesh objects: "new", "created" (CreateArrays called) or "dead"
    ptr,              \* the pointer fields pt, pv, pn, pc, pvc of every object; 0 is NULL
    heap,             \* every RCArray allocated so far: kind, count, size, times deleted
    meshAdj,          \* the ae_ and vv_ arrays of the Mesh object
    rcCall,           \* the last call on the objects and the state it met
    rcFault,          \* a NULL pointer or a deleted array has been used
    rcSteps,          \* how many setter and Resize calls have been made
    vmStream,         \* the final index stream handed to the vertex-memory optimizer
    emitIn,           \* the arguments of EmitModifiedObj and the vertex lines it reads
    emitOut,          \* what EmitModifiedObj built and returned
    mainSettings,     \* main: the settings parsed from the command line
    mainPc,           \* main: the step it is about to take
    mainExit,         \* main: the exit status, -1 while it runs
    mainFailed,       \* main: the step that failed, "none" if none did
    pnIBIn,         \* Tootle.cpp: the index buffer as loaded, one triangle per entry
    pnIB,           \* Tootle.cpp: the index buffer, optimized in place
    faceClusters,   \* Tootle.cpp: the cluster id of every face of pnIB
    nNumClusters,   \* Tootle.cpp: the number of clusters
    clusterOrder,   \* the draw order of the clusters chosen by the cluster orderer
    optStage,       \* how far the optimization has got
    optRet          \* the TootleResult of the optimization

meshVars == <<nv, t, vt, ae, vv, vtRet, aeRet, vvRet, vtIn, aeIn, vvIn, allocFailed>>
soupVars == <<pv, pt, r, randq, nsteps, res, computed, crashed>>
odVars == <<s_bInitialized, s_pSoup, rGraphOut, graphIn, fullgraph, odRet,
            odCall, odInitCalled, isInit, soupRead>>
callerVars == <<callerPc, graphCaller>>
optVars == <<pnIBIn, pnIB, faceClusters, nNumClusters, clusterOrder, optStage, optRet>>
jrtVars == <<m_nTriangleCount, m_pTriangles, m_pFaceNormals, m_pNormals, m_pPositions,
             jrtCall, jrtFault, jrtSteps, jrtLog>>
meterVars == <<cacheSize, meterIB, meterRet>>
tableVars == <<raysTraced, rayClusters, overdrawTable>>
rcVars == <<objState, ptr, heap, meshAdj, rcCall, rcFault, rcSteps>>
sampleVars == <<vmStream, emitIn, emitOut, mainSettings, mainPc, mainExit, mainFailed>>
restVars == <<jrtVars, meterVars, tableVars, rcVars, sampleVars>>
vars == <<meshVars, soupVars, odVars, optVars, callerVars, restVars>>

(***************************************************************************)
(* Generic helpers.                                                        *)
(***************************************************************************)
\* all sequences over S of length at most n
SeqsUpTo(S, n) == UNION {[1..k -> S] : k \in 0..n}

\* number of positions of seq holding x
Occ(seq, x) == Cardinality({i \in 1..Len(seq) : seq[i] = x})

\* Array::Resize on a vector: keeps the first n elements, value-initialises
\* the new ones; elements that stay are not cleared.
Resize(arr, n, dflt) ==
    IF n <= Len(arr) THEN SubSeq(arr, 1, n)
    ELSE arr \o [i \in 1..(n - Len(arr)) |-> dflt]

\* Array::PushBack on element idx (0-based) of an array of arrays
PushBackAt(arr, idx, value) == [arr EXCEPT ![idx + 1] = Append(@, value)]

(***************************************************************************)
(* Mesh (mesh.h).                                                          *)
(***************************************************************************)
Verts(n) == 0..(n - 1)
Triangles(n) == [1..NumSlots -> Verts(n)]

\* t(f)[i]
Tri(f, i) == t[f + 1][i + 1]

\* ComputeVT indexing vtOut by the slot number i instead of face[i]
RECURSIVE VTLoopBySlot(_, _)
VTLoopBySlot(vtOut, k) ==
    IF k >= NumSlots * Len(t) THEN vtOut
    ELSE VTLoopBySlot(IF k % NumSlots < Len(vtOut)
                         THEN PushBackAt(vtOut, k % NumSlots, k \div NumSlots)
                         ELSE vtOut,
                      k + 1)

\* Mesh::ComputeVT: the loop body for triangle slot k = 3 * f + i
RECURSIVE VTLoop(_, _)
VTLoop(vtOut, k) ==
    IF k >= NumSlots * Len(t) THEN vtOut
    ELSE VTLoop(PushBackAt(vtOut, Tri(k \div NumSlots, k % NumSlots), k \div NumSlots),
                k + 1)

ComputeVTResult(vtOut) == VTLoop(Resize(vtOut, nv, <<>>), 0)

\* the k-loop leaving at the first slot that matches
RECURSIVE AEHitsBreak(_, _, _)
AEHitsBreak(af, vn, k) ==
    IF k >= NumSlots THEN <<>>
    ELSE IF Tri(af, k) = vn THEN <<af>> ELSE AEHitsBreak(af, vn, k + 1)

\* Mesh::ComputeAE: the k-loop, what one face af of vt[v] contributes
RECURSIVE AEHits(_, _, _)
AEHits(af, vn, k) ==
    IF k >= NumSlots THEN <<>>
    ELSE (IF Tri(af, k) = vn THEN <<af>> ELSE <<>>) \o AEHits(af, vn, k + 1)

\* the j-loop without the test af != f
RECURSIVE AEScanNoSelfTest(_, _, _, _, _)
AEScanNoSelfTest(vtArr, f, v, vn, j) ==
    IF j >= Len(vtArr[v + 1]) THEN <<>>
    ELSE AEHits(vtArr[v + 1][j + 1], vn, 0) \o AEScanNoSelfTest(vtArr, f, v, vn, j + 1)

\* the j-loop over vt[v] for the edge (v, vn) of face f
RECURSIVE AEScan(_, _, _, _, _)
AEScan(vtArr, f, v, vn, j) ==
    IF j >= Len(vtArr[v + 1]) THEN <<>>
    ELSE LET af == vtArr[v + 1][j + 1]
         IN  (IF af # f THEN AEHits(af, vn, 0) ELSE <<>>)
                 \o AEScan(vtArr, f, v, vn, j + 1)

\* ComputeAE looking at the first two edges of the triangle only
AEFaceTwoEdges(vtArr, f) ==
    AEScan(vtArr, f, Tri(f, 0), Tri(f, 1), 0)
        \o AEScan(vtArr, f, Tri(f, 1), Tri(f, 2), 0)

\* the i-loop pushing the edge's end vertex vn in place of the face af
AEFacePushVertex(vtArr, f) ==
    LET edge(i) == LET hits == AEScan(vtArr, f, Tri(f, i), Tri(f, (i + 1) % NumSlots), 0)
                   IN  [p \in 1..Len(hits) |-> Tri(f, (i + 1) % NumSlots)]
    IN  edge(0) \o edge(1) \o edge(2)

\* the i-loop over the three edges of face f
AEFace(vtArr, f) ==
    AEScan(vtArr, f, Tri(f, 0), Tri(f, 1), 0)
        \o AEScan(vtArr, f, Tri(f, 1), Tri(f, 2), 0)
        \o AEScan(vtArr, f, Tri(f, 2), Tri(f, 0), 0)

ComputeAEResult(aeOld, vtArr) ==
    LET resized == Resize(aeOld, Len(t), <<>>)
    IN  [f1 \in 1..Len(t) |-> resized[f1] \o AEFace(vtArr, f1 - 1)]

\* ComputeVV without the last PushBack of the loop body
RECURSIVE VVLoopFive(_, _)
VVLoopFive(vvArr, i) ==
    IF i >= Len(t) THEN vvArr
    ELSE LET a == Tri(i, 0)
             b == Tri(i, 1)
             c == Tri(i, 2)
             s1 == PushBackAt(vvArr, a, b)
             s2 == PushBackAt(s1, b, a)
             s3 == PushBackAt(s2, b, c)
             s4 == PushBackAt(s3, c, b)
             s5 == PushBackAt(s4, c, a)
         IN  VVLoopFive(s5, i + 1)

\* Mesh::ComputeVV: the loop body for triangle i
RECURSIVE VVLoop(_, _)
VVLoop(vvArr, i) ==
    IF i >= Len(t) THEN vvArr
    ELSE LET a == Tri(i, 0)
             b == Tri(i, 1)
             c == Tri(i, 2)
             s1 == PushBackAt(vvArr, a, b)
             s2 == PushBackAt(s1, b, a)
             s3 == PushBackAt(s2, b, c)
             s4 == PushBackAt(s3, c, b)
             s5 == PushBackAt(s4, c, a)
             s6 == PushBackAt(s5, a, c)
         IN  VVLoop(s6, i + 1)

ComputeVVResult(vvOld) == VVLoop(Resize(vvOld, nv, <<>>), 0)

MeshInit ==
    /\ nv \in 1..MaxV
    /\ t \in SeqsUpTo(Triangles(nv), MaxT)
    /\ vt = <<>>
    /\ ae = <<>>
    /\ vv = <<>>
    /\ vtRet = -1
    /\ aeRet = -1
    /\ vvRet = -1
    /\ vtIn = <<>>
    /\ aeIn = <<>>
    /\ vvIn = <<>>
    /\ allocFailed = "none"

\* the vertices of the meshes whose triangles may share an edge, a corner or
\* nothing
EdgeVerts == NumSlots + 2

\* a triangle with three different vertex indices
IsProper(face) == face[1] # face[2] /\ face[2] # face[3] /\ face[1] # face[3]

\* the proper triangles over EdgeVerts vertices, each written from its
\* smallest index, in both orientations
ProperFaces ==
    {face \in Triangles(EdgeVerts) :
        IsProper(face) /\ face[1] < face[2] /\ face[1] < face[3]}

\* a mesh of proper triangles only
ProperMeshInit ==
    /\ nv = EdgeVerts
    /\ t \in SeqsUpTo(ProperFaces, MaxT)
    /\ vt = <<>>
    /\ ae = <<>>
    /\ vv = <<>>
    /\ vtRet = -1
    /\ aeRet = -1
    /\ vvRet = -1
    /\ vtIn = <<>>
    /\ aeIn = <<>>
    /\ vvIn = <<>>
    /\ allocFailed = "none"

\* int Mesh::ComputeVT(VTArray& vtOut), on the caller's VTArray
ComputeVT ==
    /\ aeRet = -1
    /\ vtRet = -1 \/ vtIn = <<>>
    /\ vtIn' = vt
    /\ vt' = ComputeVTResult(vt)
    /\ vtRet' = 1
    /\ UNCHANGED <<nv, t, ae, vv, aeRet, vvRet, aeIn, vvIn, allocFailed>>
    /\ UNCHANGED <<soupVars, odVars, optVars, callerVars, restVars>>

\* int Mesh::ComputeAE(const VTArray& vt); vt must have an entry per vertex
ComputeAE ==
    /\ Len(vt) = nv
    /\ aeRet = -1 \/ aeIn = <<>>
    /\ aeIn' = ae
    /\ ae' = ComputeAEResult(ae, vt)
    /\ aeRet' = 1
    /\ UNCHANGED <<nv, t, vt, vv, vtRet, vvRet, vtIn, vvIn, allocFailed>>
    /\ UNCHANGED <<soupVars, odVars, optVars, callerVars, restVars>>

\* int Mesh::ComputeVV(void)
ComputeVV ==
    /\ vvRet = -1 \/ vvIn = <<>>
    /\ vvIn' = vv
    /\ vv' = ComputeVVResult(vv)
    /\ vvRet' = 1
    /\ UNCHANGED <<nv, t, vt, ae, vtRet, aeRet, vtIn, aeIn, allocFailed>>
    /\ UNCHANGED <<soupVars, odVars, optVars, callerVars, restVars>>

(***************************************************************************)
(* The adjacency calls when one allocation fails: the Resize of the outer  *)
(* array, or the PushBack number failAt (counted from 0) of the call.      *)
(***************************************************************************)
\* Mesh::ComputeVT: the loop when the PushBack of slot failAt returns 0
RECURSIVE VTLoopFailing(_, _, _)
VTLoopFailing(vtOut, k, failAt) ==
    IF k >= NumSlots * Len(t) THEN vtOut
    ELSE VTLoopFailing(IF k = failAt THEN vtOut
                       ELSE PushBackAt(vtOut, Tri(k \div NumSlots, k % NumSlots),
                                       k \div NumSlots),
                       k + 1, failAt)

\* Mesh::ComputeVV: the m-th PushBack of the loop body for triangle i, as
\* <<vertex whose list is extended, value>>
VVPush(i, m) ==
    CASE m = 0 -> <<Tri(i, 0), Tri(i, 1)>>
      [] m = 1 -> <<Tri(i, 1), Tri(i, 0)>>
      [] m = 2 -> <<Tri(i, 1), Tri(i, 2)>>
      [] m = 3 -> <<Tri(i, 2), Tri(i, 1)>>
      [] m = 4 -> <<Tri(i, 2), Tri(i, 0)>>
      [] OTHER -> <<Tri(i, 0), Tri(i, 2)>>

\* Mesh::ComputeVV: the loop when PushBack number failAt returns 0
RECURSIVE VVLoopFailing(_, _, _)
VVLoopFailing(vvArr, p, failAt) ==
    IF p >= 6 * Len(t) THEN vvArr
    ELSE VVLoopFailing(IF p = failAt THEN vvArr
                       ELSE PushBackAt(vvArr, VVPush(p \div 6, p % 6)[1],
                                       VVPush(p \div 6, p % 6)[2]),
                       p + 1, failAt)

\* Mesh::ComputeAE: the PushBacks of the faces f.. in order, as <<f, af>>
RECURSIVE AEPushes(_, _)
AEPushes(vtArr, f) ==
    IF f >= Len(t) THEN <<>>
    ELSE LET hits == AEFace(vtArr, f)
             F[p \in 0..Len(hits)] == IF p = 0 THEN <<>> ELSE Append(F[p - 1], <<f, hits[p]>>)
         IN  F[Len(hits)] \o AEPushes(vtArr, f + 1)

\* the first n of the PushBacks applied to the resized ae
RECURSIVE ApplyPushes(_, _, _)
ApplyPushes(aeArr, pushes, n) ==
    IF n = 0 \/ pushes = <<>> THEN aeArr
    ELSE ApplyPushes(PushBackAt(aeArr, Head(pushes)[1], Head(pushes)[2]), Tail(pushes), n - 1)

\* ComputeVT: vtOut.Resize fails and 0 is returned
VTResizeFails ==
    /\ nv > Len(vt)
    /\ vt' = vt
    /\ vtRet' = 0

\* ComputeVT: a PushBack fails, its result is not looked at
VTPushFails(failAt) ==
    /\ vt' = VTLoopFailing(Resize(vt, nv, <<>>), 0, failAt)
    /\ vtRet' = 1

ComputeVTFailing ==
    /\ vtRet = -1
    /\ aeRet = -1
    /\ vtIn' = vt
    /\ allocFailed' = "ComputeVT"
    /\ \/ VTResizeFails
       \/ \E failAt \in 0..(NumSlots * Len(t) - 1) : VTPushFails(failAt)
    /\ UNCHANGED <<nv, t, ae, vv, aeRet, vvRet, aeIn, vvIn>>
    /\ UNCHANGED <<soupVars, odVars, optVars, callerVars, restVars>>

\* ComputeVV: vv().Resize fails and 0 is returned
VVResizeFails ==
    /\ nv > Len(vv)
    /\ vv' = vv
    /\ vvRet' = 0

\* ComputeVV: a PushBack fails, its result is not looked at
VVPushFails(failAt) ==
    /\ vv' = VVLoopFailing(Resize(vv, nv, <<>>), 0, failAt)
    /\ vvRet' = 1

ComputeVVFailing ==
    /\ vvRet = -1
    /\ vvIn' = vv
    /\ allocFailed' = "ComputeVV"
    /\ \/ VVResizeFails
       \/ \E failAt \in 0..(6 * Len(t) - 1) : VVPushFails(failAt)
    /\ UNCHANGED <<nv, t, vt, ae, vtRet, aeRet, vtIn, aeIn>>
    /\ UNCHANGED <<soupVars, odVars, optVars, callerVars, restVars>>

\* ComputeAE: ae().Resize fails and its result is not looked at; ae keeps
\* its size, and a PushBack on ae(f) beyond it is undefined: the process
\* faults, or the write goes astray and the loop runs on
AEResizeFails ==
    /\ Len(t) > Len(ae)
    /\ ae' = ae
    /\ \/ aeRet' = 1 /\ crashed' = FALSE
       \/ /\ \E p \in 1..Len(AEPushes(vt, 0)) : AEPushes(vt, 0)[p][1] >= Len(ae)
          /\ aeRet' = -1
          /\ crashed' = TRUE

\* ComputeAE: PushBack number failAt fails and 0 is returned
AEPushFails(failAt) ==
    /\ ae' = ApplyPushes(Resize(ae, Len(t), <<>>), AEPushes(vt, 0), failAt)
    /\ aeRet' = 0
    /\ crashed' = FALSE

ComputeAEFailing ==
    /\ Len(vt) = nv
    /\ aeRet = -1
    /\ aeIn' = ae
    /\ allocFailed' = "ComputeAE"
    /\ \/ AEResizeFails
       \/ \E failAt \in 0..(Len(AEPushes(vt, 0)) - 1) : AEPushFails(failAt)
    /\ UNCHANGED <<nv, t, vt, vv, vtRet, vvRet, vtIn, vvIn>>
    /\ UNCHANGED <<pv, pt, r, randq, nsteps, res, computed>>
    /\ UNCHANGED <<odVars, optVars, callerVars, restVars>>

(***************************************************************************)
(* Soup::ComputeResolution (soup.cpp).  Vertices lie on the x axis at      *)
(* integer coordinates, so every squared edge length is a perfect square   *)
(* and its float square root is exact.                                     *)
(***************************************************************************)
Soups == {"a", "b"}

\* if (nsamp > 333) { nsamp = 333; }
MaxSamples == 333

\* the two vertices of an edge
SoupVerts == NumSlots - 1

Word == 65536

\* randq = unsigned(1664525) * randq + unsigned(1013904223), modulo 2^32,
\* on the 16-bit halves of randq: 1664525 = 25 * 2^16 + 26125 and
\* 1013904223 = 15470 * 2^16 + 62303
LCG(q) ==
    LET low == 26125 * q[2] + 62303
    IN  <<((low \div Word) + 25 * q[2] + 26125 * q[1] + 15470) % Word, low % Word>>

\* randq % nf
RandIndex(q, nf) == ((q[1] % nf) * (Word % nf) + q[2]) % nf

\* Norm2(v(a) - v(b))
Norm2(a, b) == (pv[a + 1] - pv[b + 1]) * (pv[a + 1] - pv[b + 1])

\* (float) sqrt(x)
Sqrt(x) == CHOOSE k \in 0..x : k * k <= x /\ (k + 1) * (k + 1) > x

\* Array<float>: size, capacity, the storage behind them (0 where nothing
\* has been stored) and the indices whose element holds a defined value
EmptyArray == [size |-> 0, capacity |-> 0, store |-> <<>>, defined |-> {}]

\* Array::Reserve: storage for n elements, the size stays what it was
Reserve(arr, n) ==
    IF n <= arr.capacity THEN arr
    ELSE [arr EXCEPT !.capacity = n,
                     !.store = @ \o [i \in 1..(n - Len(@)) |-> 0]]

\* samples[i] = x through operator[], which checks neither size nor capacity
Store(arr, i, x) ==
    [arr EXCEPT !.store = [@ EXCEPT ![i + 1] = x], !.defined = @ \cup {i}]

\* samples[i] can be read from the storage and holds a defined value
Readable(arr, i) == i < arr.capacity /\ i \in arr.defined

\* the sampling loop from iteration i on: <<samples, randq, sampled indices>>
RECURSIVE SampleLoop(_, _, _, _, _, _)
SampleLoop(tris, samples, q, js, i, nsamp) ==
    IF i >= nsamp THEN <<samples, q, js>>
    ELSE LET q1 == LCG(q)
             j == RandIndex(q1, Len(tris))
             tj == tris[j + 1]
             s0 == Store(samples, 3 * i + 0, Norm2(tj[1], tj[2]))
             s1 == Store(s0, 3 * i + 1, Norm2(tj[2], tj[3]))
             s2 == Store(s1, 3 * i + 2, Norm2(tj[3], tj[1]))
         IN  SampleLoop(tris, s2, q1, Append(js, j), i + 1, nsamp)

\* nth_element(begin(), begin() + size() / 2, end()): the first size()
\* elements are rearranged so that the one of rank size() / 2 is in place
NthElement(arr) ==
    LET sorted == SortSeq(SubSeq(arr.store, 1, arr.size), LAMBDA x, y : x < y)
    IN  [arr EXCEPT !.store = sorted \o SubSeq(@, arr.size + 1, Len(@))]

\* nsamp = nf / 2, at most 333
NSamp(nf) == IF nf \div 2 > MaxSamples THEN MaxSamples ELSE nf \div 2

\* the early return taken only for a stored value, not for an empty soup
TakesStoredValueNoEmptyTest(s, force) == r[s] > 0 /\ ~force

\* the test that sends ComputeResolution down its early return
TakesStoredValue(s, force) == Len(pt[s]) < 1 \/ (r[s] > 0 /\ ~force)

\* the state of the call when it reaches the final read of samples
Sampled(s) ==
    LET nsamp == NSamp(Len(pt[s]))
        loop == SampleLoop(pt[s], Reserve(EmptyArray, nsamp * 3), randq, <<>>, 0, nsamp)
    IN  [samples |-> NthElement(loop[1]), randq |-> loop[2], js |-> loop[3],
         nsamp |-> nsamp]

NoCall == [soup |-> "none"]

CallRecord(s, force, path, ok, out, js, samples) ==
    [soup |-> s, force |-> force, nf |-> Len(pt[s]), rBefore |-> r[s], path |-> path,
     ok |-> ok, resolution |-> out, js |-> js, samples |-> samples]

SoupIdle ==
    /\ pv = <<>>
    /\ pt = [s \in Soups |-> <<>>]
    /\ r = [s \in Soups |-> -1]
    /\ randq = <<0, 0>>
    /\ nsteps = 0
    /\ res = NoCall
    /\ computed = [s \in Soups |-> <<>>]
    /\ crashed = FALSE

MeshIdle ==
    /\ nv = 0
    /\ t = <<>>
    /\ vt = <<>>
    /\ ae = <<>>
    /\ vv = <<>>
    /\ vtRet = -1
    /\ aeRet = -1
    /\ vvRet = -1
    /\ vtIn = <<>>
    /\ aeIn = <<>>
    /\ vvIn = <<>>
    /\ allocFailed = "none"

\* two soups made by MakeSoup from one vertex buffer and one index buffer;
\* Soup::Soup sets r = -1
SoupInit ==
    /\ pv \in [1..SoupVerts -> 0..MaxCoord]
    /\ pv[1] = 0
    /\ \E tris \in SeqsUpTo(Triangles(SoupVerts), MaxT) : pt = [s \in Soups |-> tris]
    /\ r = [s \in Soups |-> -1]
    /\ randq = <<0, 0>>
    /\ nsteps = 0
    /\ res = NoCall
    /\ computed = [s \in Soups |-> <<>>]
    /\ crashed = FALSE

\* int Soup::ComputeResolution(float* resolution, bool force): the early
\* return with the stored value
ResolutionStored(s, force) ==
    /\ ~crashed
    /\ TakesStoredValue(s, force)
    /\ res' = CallRecord(s, force, "stored", 1, r[s], <<>>, EmptyArray)
    /\ UNCHANGED <<pv, pt, r, randq, nsteps, computed, crashed>>

\* ... samples.Reserve fails: return 0; *resolution is not written (the
\* record carries 0 in its place)
ResolutionNoMemory(s, force) ==
    /\ ~crashed
    /\ ~TakesStoredValue(s, force)
    /\ res' = CallRecord(s, force, "nomem", 0, 0, <<>>, EmptyArray)
    /\ UNCHANGED <<pv, pt, r, randq, nsteps, computed, crashed>>

\* ... the sampling path.  The loop writes and the last statement reads
\* elements past size() of a vector that was only Reserved: a build that
\* checks operator[] stops the process, an unchecked build uses the raw
\* storage, and a read outside the storage yields an arbitrary float or
\* a fault.
ResolutionSampled(s, force) ==
    /\ ~crashed
    /\ ~TakesStoredValue(s, force)
    /\ nsteps + NSamp(Len(pt[s])) <= MaxSteps
    /\ LET c == Sampled(s)
           slot == c.samples.size \div 2
       IN  /\ randq' = c.randq
           /\ nsteps' = nsteps + c.nsamp
           /\ \/ /\ Readable(c.samples, slot)
                 /\ r' = [r EXCEPT ![s] = Sqrt(c.samples.store[slot + 1])]
                 /\ res' = CallRecord(s, force, "sampled", 1, r'[s], c.js, c.samples)
                 /\ computed' = [computed EXCEPT ![s] = <<r'[s]>>]
                 /\ crashed' = FALSE
              \/ /\ ~Readable(c.samples, slot)
                 /\ \E x \in 0..MaxCoord :
                       /\ r' = [r EXCEPT ![s] = x]
                       /\ res' = CallRecord(s, force, "sampled", 1, x, c.js, c.samples)
                       /\ computed' = [computed EXCEPT ![s] = <<x>>]
                 /\ crashed' = FALSE
              \/ /\ slot >= c.samples.size
                 /\ r' = r
                 /\ res' = CallRecord(s, force, "fault", 0, 0, c.js, c.samples)
                 /\ computed' = computed
                 /\ crashed' = TRUE
    /\ UNCHANGED <<pv, pt>>

ComputeResolution(s, force) ==
    /\ \/ ResolutionStored(s, force)
       \/ ResolutionNoMemory(s, force)
       \/ ResolutionSampled(s, force)
    /\ UNCHANGED <<meshVars, odVars, optVars, callerVars, restVars>>

\* the caller empties the soup's triangle array through t()
ClearTriangles(s) ==
    /\ ~crashed
    /\ pt[s] # <<>>
    /\ pt' = [pt EXCEPT ![s] = <<>>]
    /\ UNCHANGED <<pv, r, randq, nsteps, res, computed, crashed>>
    /\ UNCHANGED <<meshVars, odVars, optVars, callerVars, restVars>>

(***************************************************************************)
(* The overdraw module (overdraw.cpp).  The table that the ray tracer      *)
(* leaves in fullgraph is an input here: any table of counts.              *)
(***************************************************************************)
\* numbers of clusters explored
ClusterCounts == {1, 2, 3}

\* the tables TootleRaytracer::CalculateOverdraw may leave for nc clusters
Tables(nc) == [1..nc -> [1..nc -> 0..MaxOD]]

\* fullgraph[i][j]
Cell(O, i, j) == O[i + 1][j + 1]

Edge(i, j, cost) == [from |-> i, to |-> j, cost |-> cost]

\* the extraction loop writing t.cost = fullgraph[i][j]
RECURSIVE ExtractLoopCostOneWay(_, _, _, _)
ExtractLoopCostOneWay(O, k, graph, memory) ==
    LET nc == Len(O)
        i == k \div nc
        j == k % nc
    IN  IF k >= nc * nc THEN [graph |-> graph, code |-> "TOOTLE_OK"]
        ELSE IF Cell(O, i, j) > Cell(O, j, i)
             THEN IF memory = 0
                  THEN [graph |-> graph, code |-> "TOOTLE_OUT_OF_MEMORY"]
                  ELSE ExtractLoopCostOneWay(O, k + 1,
                           Append(graph, Edge(i, j, Cell(O, i, j))), memory - 1)
             ELSE ExtractLoopCostOneWay(O, k + 1, graph, memory)

\* extract a directed graph from the overdraw table: the two loops from
\* cell k = i * nClusters + j on; memory is the number of PushBacks that
\* can still succeed
RECURSIVE ExtractLoop(_, _, _, _)
ExtractLoop(O, k, graph, memory) ==
    LET nc == Len(O)
        i == k \div nc
        j == k % nc
    IN  IF k >= nc * nc THEN [graph |-> graph, code |-> "TOOTLE_OK"]
        ELSE IF Cell(O, i, j) > Cell(O, j, i)
             THEN IF memory = 0
                  THEN [graph |-> graph, code |-> "TOOTLE_OUT_OF_MEMORY"]
                  ELSE ExtractLoop(O, k + 1,
                           Append(graph, Edge(i, j, Cell(O, i, j) - Cell(O, j, i))),
                           memory - 1)
             ELSE ExtractLoop(O, k + 1, graph, memory)

\* the number of PushBacks a complete extraction needs
NumEdges(O) ==
    Cardinality({c \in (1..Len(O)) \X (1..Len(O)) : O[c[1]][c[2]] > O[c[2]][c[1]]})

NoResult == [code |-> "none", stage |-> "none"]

NoGraphCall == [fn |-> "none", size |-> 0, optimizer |-> "none", soup |-> "NULL", init |-> FALSE]

NoQuery == [asked |-> FALSE, ret |-> FALSE, init |-> FALSE]

\* the threads that use the overdraw module, each on a soup of its own
Callers == {"A", "B"}
SoupOf(c) == IF c = "A" THEN "a" ELSE "b"

\* no thread is at work on the overdraw module
CallerIdle ==
    /\ callerPc = [c \in Callers |-> "idle"]
    /\ graphCaller = "none"

\* the module's statics as initialised, and a caller's edge array that is
\* empty or still holds an edge
ODInit0 ==
    /\ s_bInitialized = FALSE
    /\ s_pSoup = "NULL"
    /\ rGraphOut \in {<<>>, <<Edge(0, 0, 0)>>}
    /\ graphIn = <<>>
    /\ fullgraph = <<>>
    /\ odRet = NoResult
    /\ odCall = NoGraphCall
    /\ odInitCalled = FALSE
    /\ isInit = NoQuery
    /\ soupRead = "none"

ODIdle ==
    /\ s_bInitialized = FALSE
    /\ s_pSoup = "NULL"
    /\ rGraphOut = <<>>
    /\ graphIn = <<>>
    /\ fullgraph = <<>>
    /\ odRet = NoResult
    /\ odCall = NoGraphCall
    /\ odInitCalled = FALSE
    /\ isInit = NoQuery
    /\ soupRead = "none"

\* TootleResult ODInit(): returns TOOTLE_OK and assigns nothing
ODInit ==
    /\ odInitCalled' = TRUE
    /\ UNCHANGED <<s_bInitialized, s_pSoup, rGraphOut, graphIn, fullgraph, odRet,
                   odCall, isInit, soupRead>>
    /\ UNCHANGED <<meshVars, soupVars, optVars, restVars>>

\* bool ODIsInitialized()
ODIsInitialized ==
    /\ isInit' = [asked |-> TRUE, ret |-> TRUE, init |-> odInitCalled]
    /\ UNCHANGED <<s_bInitialized, s_pSoup, rGraphOut, graphIn, fullgraph, odRet,
                   odCall, odInitCalled, soupRead>>
    /\ UNCHANGED <<meshVars, soupVars, optVars, restVars>>

\* TootleResult ODSetSoup(Soup* pSoup, TootleFaceWinding); the runs explored
\* set the soup before the graph computation
ODSetSoup(pSoup) ==
    /\ odRet = NoResult
    /\ s_pSoup' = pSoup
    /\ UNCHANGED <<s_bInitialized, rGraphOut, graphIn, fullgraph, odRet,
                   odCall, odInitCalled, isInit, soupRead>>
    /\ UNCHANGED <<meshVars, soupVars, optVars, restVars>>

\* ODComputeGraphRaytrace: ComputeTriNormals, the table, TootleRaytracer::Init
\* or CalculateOverdraw runs out of memory
GraphRaytraceNoMemory(stage) ==
    /\ odRet' = [code |-> "TOOTLE_OUT_OF_MEMORY", stage |-> stage]
    /\ graphIn' = rGraphOut
    /\ soupRead' = s_pSoup
    /\ UNCHANGED <<s_bInitialized, s_pSoup, rGraphOut, fullgraph, odInitCalled, isInit>>
    /\ UNCHANGED <<meshVars, soupVars, optVars, restVars>>

\* ODComputeGraphRaytrace: the ray tracer has left the table O and the
\* extraction loop runs with room for memory PushBacks
GraphRaytraceExtract(O, memory) ==
    /\ LET done == ExtractLoop(O, 0, rGraphOut, memory)
       IN  /\ rGraphOut' = done.graph
           /\ odRet' = [code |-> done.code, stage |-> "extract"]
    /\ graphIn' = rGraphOut
    /\ fullgraph' = O
    /\ soupRead' = s_pSoup
    /\ UNCHANGED <<s_bInitialized, s_pSoup, odInitCalled, isInit>>
    /\ UNCHANGED <<meshVars, soupVars, optVars, restVars>>

\* the body of ODComputeGraphRaytrace
GraphRaytraceOutcomes ==
    \/ \E stage \in {"normals", "table", "init", "overdraw"} : GraphRaytraceNoMemory(stage)
    \/ \E nc \in ClusterCounts : \E O \in Tables(nc) :
          \E memory \in 0..NumEdges(O) : GraphRaytraceExtract(O, memory)

\* ODComputeGraphRaytrace called by itself; the runs explored call it once,
\* with a soup set
ODComputeGraphRaytrace ==
    /\ s_pSoup # "NULL"
    /\ odRet = NoResult
    /\ GraphRaytraceOutcomes
    /\ UNCHANGED odCall

\* the test that opens ODOverdrawGraph
NotReady == ~s_bInitialized \/ s_pSoup = "NULL"

Optimizers == {"TOOTLE_OVERDRAW_AUTO", "TOOTLE_OVERDRAW_RAYTRACE", "TOOTLE_OVERDRAW_FAST"}

\* ODOverdrawGraph returns TOOTLE_INTERNAL_ERROR after emptying rGraphOut
RejectAfterClear(stage) ==
    /\ odRet' = [code |-> "TOOTLE_INTERNAL_ERROR", stage |-> stage]
    /\ graphIn' = rGraphOut
    /\ rGraphOut' = <<>>
    /\ UNCHANGED <<s_bInitialized, s_pSoup, fullgraph, odInitCalled, isInit, soupRead>>
    /\ UNCHANGED <<meshVars, soupVars, optVars, restVars>>

\* ODOverdrawGraph returns TOOTLE_INTERNAL_ERROR
Reject(stage) ==
    /\ odRet' = [code |-> "TOOTLE_INTERNAL_ERROR", stage |-> stage]
    /\ graphIn' = rGraphOut
    /\ UNCHANGED <<s_bInitialized, s_pSoup, rGraphOut, fullgraph, odInitCalled, isInit, soupRead>>
    /\ UNCHANGED <<meshVars, soupVars, optVars, restVars>>

\* TootleResult ODOverdrawGraph(..., rClusters, rClusterStart, rGraphOut,
\* eOverdrawOptimizer) with rClusters.size() = size
ODOverdrawGraph(size, optimizer) ==
    /\ odCall' = [fn |-> "ODOverdrawGraph", size |-> size, optimizer |-> optimizer,
                  soup |-> s_pSoup, init |-> odInitCalled]
    /\ \/ NotReady /\ Reject("initialisation")
       \/ /\ ~NotReady
          /\ size # Len(pt[s_pSoup])
          /\ Reject("size")
       \/ /\ ~NotReady
          /\ size = Len(pt[s_pSoup])
          /\ optimizer = "TOOTLE_OVERDRAW_RAYTRACE"
          /\ GraphRaytraceOutcomes
       \/ /\ ~NotReady
          /\ size = Len(pt[s_pSoup])
          /\ optimizer # "TOOTLE_OVERDRAW_RAYTRACE"
          /\ Reject("optimizer")

\* a thread sets its soup
CallerSetSoup(c) ==
    /\ callerPc[c] = "start"
    /\ callerPc' = [callerPc EXCEPT ![c] = "set"]
    /\ ODSetSoup(SoupOf(c))
    /\ UNCHANGED graphCaller

\* a thread that has set its soup computes the graph
CallerComputeGraph(c) ==
    /\ callerPc[c] = "set"
    /\ callerPc' = [callerPc EXCEPT ![c] = "done"]
    /\ graphCaller' = c
    /\ ODComputeGraphRaytrace

(***************************************************************************)
(* TootleOptimize (its code is not among the sources at hand; the stages   *)
(* follow the description of the clusterer, the vertex-cache orderer, the  *)
(* ray tracer's accumulation rule and the cluster orderer).                *)
(***************************************************************************)
\* numbers of faces explored
FaceCounts == {1, 2, 3}

\* the faces explored: a triangle, the same triangle from another corner,
\* and a degenerate one
InputFaces == {<<0, 1, 2>>, <<1, 2, 0>>, <<0, 0, 1>>}

\* the cluster assignments of nt faces: every cluster id below the number of
\* clusters is used
Assignments(nt) ==
    UNION {{C \in [1..nt -> 0..(nc - 1)] : \A k \in 0..(nc - 1) : \E i \in 1..nt : C[i] = k} :
              nc \in 1..nt}

\* the positions of the faces of cluster k, in array order
IndicesOf(C, k) ==
    LET F[i \in 0..Len(C)] ==
            IF i = 0 THEN <<>>
            ELSE IF C[i] = k THEN Append(F[i - 1], i) ELSE F[i - 1]
    IN  F[Len(C)]

\* the faces of pnIB found at the given positions
ApplyPositions(T, pos) ==
    LET F[i \in 0..Len(pos)] == IF i = 0 THEN <<>> ELSE Append(F[i - 1], T[pos[i]])
    IN  F[Len(pos)]

\* the positions of the faces stably sorted by cluster id, clusters k..nc-1
RECURSIVE SortedPositions(_, _, _)
SortedPositions(C, k, nc) ==
    IF k >= nc THEN <<>> ELSE IndicesOf(C, k) \o SortedPositions(C, k + 1, nc)

NumClustersOf(C) == Cardinality({C[i] : i \in 1..Len(C)})

\* the reorderings that keep every face inside its cluster's range
ClusterPerms(C) ==
    {perm \in [1..Len(C) -> 1..Len(C)] :
        /\ \A i, j \in 1..Len(C) : i # j => perm[i] # perm[j]
        /\ \A i \in 1..Len(C) : C[perm[i]] = C[i]}

\* a ray's hits sorted by distance: faces of the buffer, none of them twice
Rays(nt) ==
    {ray \in SeqsUpTo(1..nt, nt) : \A a, b \in 1..Len(ray) : a # b => ray[a] # ray[b]}

\* the pairs of hits a < b of a ray with the first in cluster i, the second in j
PairHits(ray, C, i, j) ==
    Cardinality({h \in (1..Len(ray)) \X (1..Len(ray)) :
                    h[1] < h[2] /\ C[ray[h[1]]] = i /\ C[ray[h[2]]] = j})

RECURSIVE SumRays(_, _, _, _)
SumRays(rays, C, i, j) ==
    IF rays = <<>> THEN 0
    ELSE PairHits(Head(rays), C, i, j) + SumRays(Tail(rays), C, i, j)

\* the table incremented for every pair of hits a < b of a ray, whatever
\* their clusters
AccumulateAllPairs(rays, C, nc) ==
    [i \in 1..nc |-> [j \in 1..nc |-> SumRays(rays, C, i - 1, j - 1)]]

\* the overdraw table accumulated over the rays
Accumulate(rays, C, nc) ==
    [i \in 1..nc |-> [j \in 1..nc |->
        IF i = j THEN 0 ELSE SumRays(rays, C, i - 1, j - 1)]]

\* out_weight - in_weight of cluster c among the unplaced clusters
RECURSIVE Balance(_, _, _)
Balance(graph, c, unplaced) ==
    IF graph = <<>> THEN 0
    ELSE LET e == Head(graph)
             out == IF e.from = c /\ e.to \in unplaced THEN e.cost ELSE 0
             in == IF e.to = c /\ e.from \in unplaced THEN e.cost ELSE 0
         IN  out - in + Balance(Tail(graph), c, unplaced)

\* the greedy ordering: the unplaced cluster of greatest balance next, the
\* smallest id among equals
RECURSIVE GreedyOrder(_, _, _)
GreedyOrder(graph, unplaced, order) ==
    IF unplaced = {} THEN order
    ELSE LET best == CHOOSE c \in unplaced : \A d \in unplaced :
                         \/ Balance(graph, c, unplaced) > Balance(graph, d, unplaced)
                         \/ /\ Balance(graph, c, unplaced) = Balance(graph, d, unplaced)
                            /\ c <= d
         IN  GreedyOrder(graph, unplaced \ {best}, Append(order, best))

\* the cluster order applied with every cluster copied from offset 0
RECURSIVE OrderedPositionsNoOffset(_, _, _)
OrderedPositionsNoOffset(C, order, k) ==
    IF k > Len(order) THEN <<>>
    ELSE LET size == Len(IndicesOf(C, order[k]))
         IN  SubSeq(IndicesOf(C, 0) \o IndicesOf(C, 0) \o IndicesOf(C, 0), 1, size)
                 \o OrderedPositionsNoOffset(C, order, k + 1)

\* the positions of the faces once the clusters order[k..] are laid out in
\* that order, each cluster's range kept whole
RECURSIVE OrderedPositions(_, _, _)
OrderedPositions(C, order, k) ==
    IF k > Len(order) THEN <<>>
    ELSE IndicesOf(C, order[k]) \o OrderedPositions(C, order, k + 1)

\* the cluster ids of the faces after the clusters are renumbered in draw order
RECURSIVE RenumberedClusters(_, _, _)
RenumberedClusters(C, order, k) ==
    IF k > Len(order) THEN <<>>
    ELSE ApplyPositions([i \in 1..Len(C) |-> k - 1], IndicesOf(C, order[k]))
             \o RenumberedClusters(C, order, k + 1)

OptIdle ==
    /\ pnIBIn = <<>>
    /\ pnIB = <<>>
    /\ faceClusters = <<>>
    /\ nNumClusters = 0
    /\ clusterOrder = <<>>
    /\ optStage = "idle"
    /\ optRet = "none"

\* a valid index buffer has been loaded
OptInit ==
    /\ pnIBIn \in UNION {[1..nt -> InputFaces] : nt \in FaceCounts}
    /\ pnIB = pnIBIn
    /\ faceClusters = <<>>
    /\ nNumClusters = 0
    /\ clusterOrder = <<>>
    /\ optStage = "loaded"
    /\ optRet = "none"

\* the clusterer assigns C and sorts the faces stably by cluster id
TootleClusterMesh(C) ==
    /\ optStage = "loaded"
    /\ LET pos == SortedPositions(C, 0, NumClustersOf(C))
       IN  /\ pnIB' = ApplyPositions(pnIB, pos)
           /\ faceClusters' = ApplyPositions(C, pos)
    /\ nNumClusters' = NumClustersOf(C)
    /\ optStage' = "clustered"
    /\ UNCHANGED <<pnIBIn, clusterOrder, optRet>>
    /\ UNCHANGED <<meshVars, soupVars, odVars, callerVars, restVars>>

\* the vertex-cache orderer reorders the faces inside every cluster
TootleVCacheClusters(perm) ==
    /\ optStage = "clustered"
    /\ pnIB' = ApplyPositions(pnIB, perm)
    /\ optStage' = "vcached"
    /\ UNCHANGED <<pnIBIn, faceClusters, nNumClusters, clusterOrder, optRet>>
    /\ UNCHANGED <<meshVars, soupVars, odVars, callerVars, restVars>>

\* the table of the rays, its graph, the greedy cluster order, and the
\* faces laid out in that order
TootleOptimizeOverdraw(rays) ==
    /\ optStage = "vcached"
    /\ LET O == Accumulate(rays, faceClusters, nNumClusters)
           graph == ExtractLoop(O, 0, <<>>, NumEdges(O)).graph
           order == GreedyOrder(graph, 0..(nNumClusters - 1), <<>>)
       IN  /\ clusterOrder' = order
           /\ pnIB' = ApplyPositions(pnIB, OrderedPositions(faceClusters, order, 1))
           /\ faceClusters' = RenumberedClusters(faceClusters, order, 1)
    /\ optStage' = "done"
    /\ optRet' = "TOOTLE_OK"
    /\ UNCHANGED <<pnIBIn, nNumClusters>>
    /\ UNCHANGED <<meshVars, soupVars, odVars, callerVars, restVars>>

\* a stage runs out of memory and the optimization returns its error
TootleOptimizeFails ==
    /\ optStage \in {"loaded", "clustered", "vcached"}
    /\ optStage' = "failed"
    /\ optRet' = "TOOTLE_OUT_OF_MEMORY"
    /\ UNCHANGED <<pnIBIn, pnIB, faceClusters, nNumClusters, clusterOrder>>
    /\ UNCHANGED <<meshVars, soupVars, odVars, callerVars, restVars>>

(***************************************************************************)
(* JRTMesh (RayTracer/JRT/JRTMesh.cpp).  Unsigned 32-bit values are kept   *)
(* as <<high, low>> 16-bit halves.                                         *)
(***************************************************************************)
UInt(n) == <<n \div Word, n % Word>>

\* x - 1 on an unsigned 32-bit value
UDec(x) == IF x[2] > 0 THEN <<x[1], x[2] - 1>>
           ELSE <<(x[1] + Word - 1) % Word, Word - 1>>

\* the comparison nTri < m_nTriangleCount
ULess(x, y) == x[1] < y[1] \/ (x[1] = y[1] /\ x[2] < y[2])

\* x <= y on unsigned 32-bit values
ULeq(x, y) == x[1] < y[1] \/ (x[1] = y[1] /\ x[2] <= y[2])

\* the normals and positions explored
Vectors == {<<1, 0, 0>>, <<0, 1, 0>>, <<1, 1, 0>>}

Identity3 == <<<<1, 0, 0>>, <<0, 1, 0>>, <<0, 0, 1>>>>

\* pairs of a transform and its inverse: the identity, a quarter turn
\* about z, and a shear with a translation
Transforms ==
    { [x |-> [lin |-> Identity3, trans |-> <<0, 0, 0>>],
       inv |-> [lin |-> Identity3, trans |-> <<0, 0, 0>>]],
      [x |-> [lin |-> <<<<0, -1, 0>>, <<1, 0, 0>>, <<0, 0, 1>>>>, trans |-> <<0, 0, 0>>],
       inv |-> [lin |-> <<<<0, 1, 0>>, <<-1, 0, 0>>, <<0, 0, 1>>>>, trans |-> <<0, 0, 0>>]],
      [x |-> [lin |-> <<<<1, 1, 0>>, <<0, 1, 0>>, <<0, 0, 1>>>>, trans |-> <<1, 0, 0>>],
       inv |-> [lin |-> <<<<1, -1, 0>>, <<0, 1, 0>>, <<0, 0, 1>>>>, trans |-> <<-1, 0, 0>>]] }

\* Matrix4f::Transpose, of which TransformVector uses the upper 3 x 3 block
Transpose(M) == [lin |-> <<<<M.lin[1][1], M.lin[2][1], M.lin[3][1]>>,
                           <<M.lin[1][2], M.lin[2][2], M.lin[3][2]>>,
                           <<M.lin[1][3], M.lin[2][3], M.lin[3][3]>>>>,
                 trans |-> <<0, 0, 0>>]

Row(M, i, v) == M.lin[i][1] * v[1] + M.lin[i][2] * v[2] + M.lin[i][3] * v[3]

\* TransformVector(&v, &M, &out): out = M v, without the translation
TransformVector(v, M) == <<Row(M, 1, v), Row(M, 2, v), Row(M, 3, v)>>

\* TransformPoint(&p, &M, &out): out = M p + translation
TransformPoint(p, M) ==
    <<Row(M, 1, p) + M.trans[1], Row(M, 2, p) + M.trans[2], Row(M, 3, p) + M.trans[3]>>

\* the image of every element of a sequence
MapSeq(Op(_), seq) ==
    LET F[i \in 0..Len(seq)] == IF i = 0 THEN <<>> ELSE Append(F[i - 1], Op(seq[i]))
    IN  F[Len(seq)]

NoJRTCall == [fn |-> "none"]

JRTIdle ==
    /\ m_nTriangleCount = UInt(0)
    /\ m_pTriangles = <<>>
    /\ m_pFaceNormals = <<>>
    /\ m_pNormals = "NULL"
    /\ m_pPositions = <<>>
    /\ jrtCall = NoJRTCall
    /\ jrtFault = FALSE
    /\ jrtSteps = 0
    /\ jrtLog = [triangles |-> <<>>, normals |-> <<>>, removed |-> <<>>]

\* JRTMesh::CreateMesh with nTriangleCount = n
CreateMeshOf(n) ==
    /\ m_nTriangleCount = UInt(n)
    /\ m_pTriangles \in [1..n -> Triangles(SoupVerts)]
    /\ m_pFaceNormals \in [1..n -> Vectors]
    /\ m_pNormals = "NULL"
    /\ m_pPositions = <<<<0, 0, 0>>, <<1, 0, 0>>>>
    /\ jrtCall = NoJRTCall
    /\ jrtFault = FALSE
    /\ jrtSteps = 0
    /\ jrtLog = [triangles |-> m_pTriangles, normals |-> m_pFaceNormals, removed |-> <<>>]

\* JRTMesh::CreateMesh(pPositions, pNormals, nVertices, nTriangleCount, pIndices)
CreateMesh == \E n \in 0..MaxT : CreateMeshOf(n)

\* the face-normal branch of Transform: tmp is the old value,
\* TransformVector writes m_pFaceNormals[i], and tmp is stored over it
FaceNormalAfter(old, inverseTranspose) ==
    LET tmp == old
        written == TransformVector(tmp, inverseTranspose)
    IN  tmp

\* void JRTMesh::Transform(const Matrix4f& rXForm, const Matrix4f& rInverse)
Transform(X) ==
    /\ ~jrtFault
    /\ jrtSteps < MaxSteps
    /\ jrtSteps' = jrtSteps + 1
    /\ m_pPositions' = MapSeq(LAMBDA p : TransformPoint(p, X.x), m_pPositions)
    /\ IF m_pNormals # "NULL"
       THEN /\ m_pNormals' = MapSeq(LAMBDA n : TransformVector(n, Transpose(X.inv)), m_pNormals)
            /\ UNCHANGED m_pFaceNormals
       ELSE /\ m_pFaceNormals' = MapSeq(LAMBDA n : FaceNormalAfter(n, Transpose(X.inv)),
                                        m_pFaceNormals)
            /\ UNCHANGED m_pNormals
    /\ jrtCall' = [fn |-> "Transform", X |-> X, normals |-> m_pFaceNormals]
    /\ UNCHANGED <<m_nTriangleCount, m_pTriangles, jrtFault, jrtLog>>
    /\ UNCHANGED <<meshVars, soupVars, odVars, optVars, callerVars, meterVars, tableVars, rcVars, sampleVars>>

\* an index into the arrays CreateMesh has allocated
InBounds(i) == i[1] = 0 /\ i[2] < Len(m_pTriangles)

\* arr[i]; outside the array the read is undefined and yields some value
ReadAt(arr, i, stray) == IF InBounds(i) THEN arr[i[2] + 1] ELSE stray

\* arr[i] = x; outside the array the write is undefined and goes astray
WriteAt(arr, i, x) == IF InBounds(i) THEN [arr EXCEPT ![i[2] + 1] = x] ELSE arr

\* the exchange without the temporary: both places end up with arr[nTri]
SwappedNoTemp(arr, last, nTri, stray) ==
    LET moved == WriteAt(arr, last, ReadAt(arr, nTri, stray))
    IN  WriteAt(moved, nTri, ReadAt(moved, last, stray))

\* the two elements at last and nTri exchanged
Swapped(arr, last, nTri, stray) ==
    LET tmp == ReadAt(arr, last, stray)
        moved == WriteAt(arr, last, ReadAt(arr, nTri, stray))
    IN  WriteAt(moved, nTri, tmp)

\* what a read outside the arrays may yield; reads inside yield no stray value
Stray(outside, values) == IF outside THEN values ELSE {CHOOSE x \in values : TRUE}

RemoveCall(nTri, outside) ==
    [fn |-> "RemoveTriangle", nTri |-> nTri, count |-> m_nTriangleCount,
     triangles |-> m_pTriangles, normals |-> m_pFaceNormals, outside |-> outside]

\* the test that opens RemoveTriangle
RemoveApplies(nTri) == ULeq(nTri, m_nTriangleCount)

\* void JRTMesh::RemoveTriangle(UINT nTri)
RemoveTriangle(nTri) ==
    /\ ~jrtFault
    /\ jrtSteps < MaxSteps
    /\ jrtSteps' = jrtSteps + 1
    /\ LET last == UDec(m_nTriangleCount)
           outside == ~InBounds(last) \/ ~InBounds(nTri)
       IN  IF ~RemoveApplies(nTri)
           THEN /\ jrtCall' = RemoveCall(nTri, FALSE)
                /\ UNCHANGED <<m_nTriangleCount, m_pTriangles, m_pFaceNormals, jrtFault>>
           ELSE /\ jrtCall' = RemoveCall(nTri, outside)
                /\ \/ /\ outside
                      /\ jrtFault' = TRUE
                      /\ UNCHANGED <<m_nTriangleCount, m_pTriangles, m_pFaceNormals>>
                   \/ /\ \E stray \in Stray(outside, Triangles(SoupVerts)) :
                            m_pTriangles' = Swapped(m_pTriangles, last, nTri, stray)
                      /\ IF m_pNormals = "NULL"
                         THEN \E stray \in Stray(outside, Vectors) :
                                 m_pFaceNormals' = Swapped(m_pFaceNormals, last, nTri, stray)
                         ELSE UNCHANGED m_pFaceNormals
                      /\ m_nTriangleCount' = UDec(m_nTriangleCount)
                      /\ UNCHANGED jrtFault
    /\ jrtLog' = IF ULess(nTri, m_nTriangleCount) /\ InBounds(nTri)
                 THEN [jrtLog EXCEPT !.removed =
                          Append(@, <<m_pTriangles[nTri[2] + 1], m_pFaceNormals[nTri[2] + 1]>>)]
                 ELSE jrtLog
    /\ UNCHANGED <<m_pNormals, m_pPositions>>
    /\ UNCHANGED <<meshVars, soupVars, odVars, optVars, callerVars, meterVars, tableVars, rcVars, sampleVars>>

(***************************************************************************)
(* The cache-efficiency meter (TootleMeasureCacheEfficiency): a FIFO       *)
(* post-transform cache simulated over the index stream.                   *)
(***************************************************************************)
\* the vertices of the meshes measured: one more than the smallest cache holds
MeterVerts == NumSlots + 1

\* the cache sizes explored: the smallest allowed and one that holds every vertex
CacheSizes == {NumSlots, NumSlots + 1}

NotMeasured == [fetches |-> -1, faces |-> -1]

\* an index that is in the cache, counted as if it were a miss
MeterStepCountsHits(st, idx, size) ==
    IF \E k \in 1..Len(st.cache) : st.cache[k] = idx
    THEN [cache |-> st.cache, fetches |-> st.fetches + 1]
    ELSE [cache |-> IF Len(st.cache) < size THEN Append(st.cache, idx)
                    ELSE Append(Tail(st.cache), idx),
          fetches |-> st.fetches]

\* one index of the stream: a hit leaves the cache alone, a miss fetches the
\* vertex and enters it, pushing the oldest entry out of a full cache
MeterStep(st, idx, size) ==
    IF \E k \in 1..Len(st.cache) : st.cache[k] = idx
    THEN st
    ELSE [cache |-> IF Len(st.cache) < size THEN Append(st.cache, idx)
                    ELSE Append(Tail(st.cache), idx),
          fetches |-> st.fetches + 1]

\* the index stream of a sequence of faces
RECURSIVE IndexStream(_)
IndexStream(faces) ==
    IF faces = <<>> THEN <<>> ELSE Head(faces) \o IndexStream(Tail(faces))

\* the vertex fetches of the whole stream
VertexFetches(stream, size) ==
    LET Run[i \in 0..Len(stream)] ==
            IF i = 0 THEN [cache |-> <<>>, fetches |-> 0]
            ELSE MeterStep(Run[i - 1], stream[i], size)
    IN  Run[Len(stream)].fetches

MeterIdle ==
    /\ cacheSize = 0
    /\ meterIB = <<>>
    /\ meterRet = NotMeasured

MeterInit ==
    /\ cacheSize \in CacheSizes
    /\ meterIB \in SeqsUpTo(Triangles(MeterVerts), MaxT) \ {<<>>}
    /\ meterRet = NotMeasured

\* measure_cache_efficiency(T, n_t, cache_size): fetches over triangle count
TootleMeasureCacheEfficiency ==
    /\ meterRet = NotMeasured
    /\ meterRet' = [fetches |-> VertexFetches(IndexStream(meterIB), cacheSize),
                    faces |-> Len(meterIB)]
    /\ UNCHANGED <<cacheSize, meterIB>>
    /\ UNCHANGED <<meshVars, soupVars, odVars, optVars, callerVars, jrtVars, tableVars, rcVars, sampleVars>>

(***************************************************************************)
(* The overdraw table of the ray tracer (CalculateOverdraw, called from    *)
(* ODComputeGraphRaytrace on the zeroed table).                            *)
(***************************************************************************)
\* cluster arrays whose ids are 0 .. n_c - 1, in any order
ClusterArrays(nt) ==
    {C \in [1..nt -> 0..(nt - 1)] :
        {C[i] : i \in 1..nt} = 0..(NumClustersOf(C) - 1)}

TableIdle ==
    /\ raysTraced = <<>>
    /\ rayClusters = <<>>
    /\ overdrawTable = <<>>

\* the table as ODComputeGraphRaytrace hands it over: no entry yet
TableInit ==
    /\ raysTraced = <<>>
    /\ \E nt \in FaceCounts : rayClusters \in ClusterArrays(nt)
    /\ overdrawTable = <<>>

\* TootleRaytracer::CalculateOverdraw on the zeroed n_c x n_c table
CalculateOverdraw ==
    /\ raysTraced = <<>> /\ overdrawTable = <<>>
    /\ \E rays \in SeqsUpTo(Rays(Len(rayClusters)), MaxRays) :
          /\ raysTraced' = rays
          /\ overdrawTable' = Accumulate(rays, rayClusters, NumClustersOf(rayClusters))
    /\ UNCHANGED rayClusters
    /\ UNCHANGED <<meshVars, soupVars, odVars, optVars, callerVars, jrtVars, meterVars, rcVars, sampleVars>>

(***************************************************************************)
(* Soup and Mesh objects and their reference-counted arrays (rcarray.h,    *)
(* cloud.h, soup.h, souptomesh.cpp, MakeSoup in soup.cpp).                 *)
(***************************************************************************)
\* one Soup and one Mesh (a Mesh is a Soup)
Objs == {"soup", "mesh"}

\* the pointer fields in the order CreateArrays allocates them
Fields == <<"pt", "pv", "pn", "pc", "pvc">>

FieldSet == {Fields[i] : i \in 1..Len(Fields)}

\* the element type of the array a field points to
KindOf(f) == CASE f = "pt" -> "Triangle"
               [] f \in {"pv", "pn"} -> "Vector3"
               [] f = "pc" -> "Color"
               [] OTHER -> "float"

\* room for the arrays of as many CreateArrays calls as there are objects
ArrayLimit == Len(Fields) * Cardinality(Objs)

\* the sizes given to an array
ArraySizes == {0, 1}

\* RCArray(void): an empty array with count(1)
NewArray(kind) == [kind |-> kind, count |-> 1, size |-> 0, deleted |-> 0]

Live(h, id) == id \in 1..Len(h) /\ h[id].deleted = 0

\* void RCUp(void) { count++; }
RCUp(h, id) == [h EXCEPT ![id].count = @ + 1]

\* void RCDown(void) { count--; if (count == 0) { delete this; } }
RCDown(h, id) ==
    [h EXCEPT ![id].count = @ - 1,
              ![id].deleted = IF h[id].count - 1 = 0 THEN @ + 1 ELSE @]

NullPtrs == [f \in FieldSet |-> 0]

\* the objects, their arrays and whether undefined behaviour has occurred
Heap == [ptr |-> ptr, heap |-> heap, fault |-> rcFault]

\* the setter without its RCUp:  pv->RCDown(); pv = &new_v;
SetFieldNoUp(st, o, f, id) ==
    IF st.fault THEN st
    ELSE IF st.ptr[o][f] = 0 \/ ~Live(st.heap, st.ptr[o][f]) \/ ~Live(st.heap, id)
    THEN [st EXCEPT !.fault = TRUE]
    ELSE [ptr |-> [st.ptr EXCEPT ![o][f] = id],
          heap |-> RCDown(st.heap, st.ptr[o][f]),
          fault |-> FALSE]

\* void v(RCArray<Vector3>& new_v) { new_v.RCUp(); pv->RCDown(); pv = &new_v; }
\* and the same for n, c, vc, t
SetField(st, o, f, id) ==
    IF st.fault THEN st
    ELSE IF st.ptr[o][f] = 0 \/ ~Live(st.heap, st.ptr[o][f]) \/ ~Live(st.heap, id)
    THEN [st EXCEPT !.fault = TRUE]
    ELSE [ptr |-> [st.ptr EXCEPT ![o][f] = id],
          heap |-> RCDown(RCUp(st.heap, id), st.ptr[o][f]),
          fault |-> FALSE]

\* SoupToMesh handing over every array, empty or not
TakesArrayAlways(st, soup, f) == TRUE

\* if (soup->v().GetSize() > 0)
TakesArray(st, soup, f) == st.heap[st.ptr[soup][f]].size > 0

\* one line of SoupToMesh:  if (soup->v().GetSize() > 0) { mesh->v(soup->v()); }
ShareField(st, soup, mesh, f) ==
    IF st.fault THEN st
    ELSE IF st.ptr[soup][f] = 0 \/ ~Live(st.heap, st.ptr[soup][f])
    THEN [st EXCEPT !.fault = TRUE]
    ELSE IF TakesArray(st, soup, f) THEN SetField(st, mesh, f, st.ptr[soup][f])
    ELSE st

\* the five lines of SoupToMesh: v, n, c, vc, t
ShareAll(st, soup, mesh) ==
    ShareField(ShareField(ShareField(ShareField(ShareField(st,
        soup, mesh, "pv"), soup, mesh, "pn"), soup, mesh, "pc"), soup, mesh, "pvc"),
        soup, mesh, "pt")

\* if (pv) { pv->RCDown(); } in a destructor
Release(st, o, f) ==
    IF st.fault \/ st.ptr[o][f] = 0 THEN st
    ELSE IF ~Live(st.heap, st.ptr[o][f])
    THEN [ptr |-> st.ptr, heap |-> RCDown(st.heap, st.ptr[o][f]), fault |-> TRUE]
    ELSE [st EXCEPT !.heap = RCDown(st.heap, st.ptr[o][f])]

\* ~Soup releases pt, then ~Cloud releases pv, pn, pc, pvc; all set to NULL
ReleaseAll(st, o) ==
    LET Run[i \in 0..Len(Fields)] ==
            IF i = 0 THEN st ELSE Release(Run[i - 1], o, Fields[i])
    IN  [Run[Len(Fields)] EXCEPT !.ptr[o] = NullPtrs]

\* Soup::CreateArrays then Cloud::CreateArrays: the news in order, the one
\* numbered failAt throwing bad_alloc (0: none); the pointers are assigned
\* over whatever they held
CreatedArrays(st, o, failAt) ==
    LET n == IF failAt = 0 THEN Len(Fields) ELSE failAt - 1
        base == Len(st.heap)
        Grown[i \in 0..n] ==
            IF i = 0 THEN st.heap ELSE Append(Grown[i - 1], NewArray(KindOf(Fields[i])))
    IN  [ptr |-> [st.ptr EXCEPT ![o] =
                     [f \in FieldSet |->
                        IF \E i \in 1..n : Fields[i] = f
                        THEN base + (CHOOSE i \in 1..n : Fields[i] = f)
                        ELSE st.ptr[o][f]]],
         heap |-> Grown[n],
         fault |-> st.fault]

\* pSoup->v().Resize(n) and the like: the array behind a field gets n elements
Resized(st, o, f, n) ==
    IF st.fault THEN st
    ELSE IF st.ptr[o][f] = 0 \/ ~Live(st.heap, st.ptr[o][f])
    THEN [st EXCEPT !.fault = TRUE]
    ELSE [st EXCEPT !.heap[st.ptr[o][f]].size = n]

NoRCCall == [fn |-> "none"]

\* a call, its result and the pointers, arrays and adjacency it met
RCRecord(fn, o, ret) ==
    [fn |-> fn, obj |-> o, ret |-> ret, ptr |-> ptr, heap |-> heap, adj |-> meshAdj]

\* a call of which only the result matters
RCResult(fn, ret) == [fn |-> fn, ret |-> ret]

RCIdle ==
    /\ objState = [o \in Objs |-> "new"]
    /\ ptr = [o \in Objs |-> NullPtrs]
    /\ heap = <<>>
    /\ meshAdj = [ae |-> <<>>, vv |-> <<>>]
    /\ rcCall = NoRCCall
    /\ rcFault = FALSE
    /\ rcSteps = 0

\* Soup::Soup and Mesh::Mesh have run: every pointer is NULL; the mesh has
\* adjacency from an earlier use
RCInit ==
    /\ objState = [o \in Objs |-> "new"]
    /\ ptr = [o \in Objs |-> NullPtrs]
    /\ heap = <<>>
    /\ meshAdj = [ae |-> <<<<0>>>>, vv |-> <<<<0>>, <<1>>>>]
    /\ rcCall = NoRCCall
    /\ rcFault = FALSE
    /\ rcSteps = 0

\* the state after a call that left st
Becomes(st) ==
    /\ ptr' = st.ptr
    /\ heap' = st.heap
    /\ rcFault' = st.fault

\* virtual bool Soup::CreateArrays()
CreateArrays(o, failAt) ==
    /\ ~rcFault
    /\ objState[o] # "dead"
    /\ Len(heap) + Len(Fields) <= ArrayLimit
    /\ Becomes(CreatedArrays(Heap, o, failAt))
    /\ objState' = [objState EXCEPT ![o] = "created"]
    /\ rcCall' = RCResult("CreateArrays", failAt = 0)
    /\ UNCHANGED <<meshAdj, rcSteps>>
    /\ UNCHANGED <<meshVars, soupVars, odVars, optVars, callerVars, jrtVars, meterVars, tableVars, sampleVars>>

\* bool MakeSoup(pVB, pIB, nVertices, nFaces, nVBStride, pSoup); failAt
\* numbers the failing new of CreateArrays, 6 and 7 the failing Resize of
\* v and of t
MakeSoup(o, nVertices, nFaces, failAt) ==
    /\ ~rcFault
    /\ objState[o] # "dead"
    /\ Len(heap) + Len(Fields) <= ArrayLimit
    /\ LET made == CreatedArrays(Heap, o, IF failAt <= Len(Fields) THEN failAt ELSE 0)
           withV == Resized(made, o, "pv", nVertices)
           withT == Resized(withV, o, "pt", nFaces)
       IN  Becomes(IF failAt \in 1..(Len(Fields) + 1) THEN made
                   ELSE IF failAt = Len(Fields) + 2 THEN withV
                   ELSE withT)
    /\ objState' = [objState EXCEPT ![o] = "created"]
    /\ rcCall' = RCResult("MakeSoup", failAt = 0)
    /\ UNCHANGED <<meshAdj, rcSteps>>
    /\ UNCHANGED <<meshVars, soupVars, odVars, optVars, callerVars, jrtVars, meterVars, tableVars, sampleVars>>

\* o->v(a), o->n(a), o->c(a), o->vc(a), o->t(a) with a the array that the
\* field g of object from points to
SetArray(o, f, from, g) ==
    /\ ~rcFault
    /\ objState[o] # "dead" /\ objState[from] # "dead"
    /\ KindOf(f) = KindOf(g)
    /\ ptr[from][g] # 0
    /\ rcSteps < MaxSteps
    /\ rcSteps' = rcSteps + 1
    /\ Becomes(SetField(Heap, o, f, ptr[from][g]))
    /\ rcCall' = RCResult("SetArray", TRUE)
    /\ UNCHANGED <<objState, meshAdj>>
    /\ UNCHANGED <<meshVars, soupVars, odVars, optVars, callerVars, jrtVars, meterVars, tableVars, sampleVars>>

\* o->v().Resize(n) and the like, by the caller that fills the arrays
ResizeArray(o, f, n) ==
    /\ ~rcFault
    /\ objState[o] # "dead"
    /\ rcSteps < MaxSteps
    /\ rcSteps' = rcSteps + 1
    /\ Becomes(Resized(Heap, o, f, n))
    /\ rcCall' = RCResult("Resize", TRUE)
    /\ UNCHANGED <<objState, meshAdj>>
    /\ UNCHANGED <<meshVars, soupVars, odVars, optVars, callerVars, jrtVars, meterVars, tableVars, sampleVars>>

\* int SoupToMesh(Soup* soup, Mesh* mesh)
SoupToMesh(soup, mesh) ==
    /\ ~rcFault
    /\ objState[soup] # "dead" /\ objState[mesh] # "dead"
    /\ LET st == ShareAll(Heap, soup, mesh)
       IN  /\ Becomes(st)
           /\ meshAdj' = IF st.fault THEN meshAdj
                         ELSE [ae |-> Resize(meshAdj.ae, 0, <<>>),
                               vv |-> Resize(meshAdj.vv, 0, <<>>)]
    /\ rcCall' = [RCRecord("SoupToMesh", mesh, 1) EXCEPT !.obj = <<soup, mesh>>]
    /\ UNCHANGED <<objState, rcSteps>>
    /\ UNCHANGED <<meshVars, soupVars, odVars, optVars, callerVars, jrtVars, meterVars, tableVars, sampleVars>>

\* delete o: ~Mesh, ~Soup, ~Cloud
Destroy(o) ==
    /\ ~rcFault
    /\ objState[o] # "dead"
    /\ Becomes(ReleaseAll(Heap, o))
    /\ objState' = [objState EXCEPT ![o] = "dead"]
    /\ rcCall' = RCRecord("Destroy", o, TRUE)
    /\ UNCHANGED <<meshAdj, rcSteps>>
    /\ UNCHANGED <<meshVars, soupVars, odVars, optVars, callerVars, jrtVars, meterVars, tableVars, sampleVars>>

(***************************************************************************)
(* The sample program (TootleSample/Tootle.cpp): the vertex remap handed   *)
(* to EmitModifiedObj, EmitModifiedObj itself, and main.                   *)
(***************************************************************************)
\* a sequence of n zeros: std::vector<unsigned int> v(n)
Zeros(n) ==
    LET Z[i \in 0..n] == IF i = 0 THEN <<>> ELSE Append(Z[i - 1], 0)
    IN  Z[n]

\* the sequence lo, lo + 1, ..., hi - 1
Iota(lo, hi) ==
    LET I[i \in 0..(IF hi > lo THEN hi - lo ELSE 0)] ==
            IF i = 0 THEN <<>> ELSE Append(I[i - 1], lo + i - 1)
    IN  I[IF hi > lo THEN hi - lo ELSE 0]

\* the permutations of 0 .. n - 1, as arrays
Perms(n) == {q \in [1..n -> 0..(n - 1)] : \A a, b \in 1..n : a # b => q[a] # q[b]}

\* the vertices of a stream in the order of their first reference
FirstUses(stream) ==
    LET F[i \in 0..Len(stream)] ==
            IF i = 0 THEN <<>>
            ELSE IF Occ(F[i - 1], stream[i]) > 0 THEN F[i - 1]
            ELSE Append(F[i - 1], stream[i])
    IN  F[Len(stream)]

\* the place of x in seq, counted from 0
PlaceOf(seq, x) == (CHOOSE k \in 1..Len(seq) : seq[k] = x) - 1

\* the old ids in their new order: referenced vertices by first reference,
\* then the unreferenced ones in their original order
NewOrder(stream, n) ==
    LET used == FirstUses(stream)
        Rest[v \in 0..n] ==
            IF v = 0 THEN used
            ELSE IF Occ(used, v - 1) > 0 THEN Rest[v - 1]
            ELSE Append(Rest[v - 1], v - 1)
    IN  Rest[n]

\* a remap that numbers the vertices by the place of their last reference
RemapByPlace(stream, n) ==
    LET R[v \in 0..n] ==
            IF v = 0 THEN <<>>
            ELSE Append(R[v - 1],
                        IF Occ(stream, v - 1) = 0 THEN v - 1
                        ELSE (CHOOSE k \in 1..Len(stream) :
                                 /\ stream[k] = v - 1
                                 /\ \A j \in (k + 1)..Len(stream) : stream[j] # v - 1) - 1)
    IN  R[n]

\* TootleOptimizeVertexMemory: element i is the new id of vertex i
VertexRemap(stream, n) ==
    LET order == NewOrder(stream, n)
        R[v \in 0..n] ==
            IF v = 0 THEN <<>> ELSE Append(R[v - 1], PlaceOf(order, v - 1))
    IN  R[n]

\* the numbers of vertex lines, of remap entries and of loaded vertices
EmitCounts == 0..MaxV

NotEmitted == [ret |-> "none"]

NoEmitArgs == [nCount |-> 0, nVertices |-> 0, hasRemap |-> FALSE, vertexRemap |-> <<>>,
               rSize |-> 0]

\* vertexRemap[k], k counted from 0; past the nVertices entries the read is
\* undefined and yields some value
RemapAt(in, k, stray) == IF k < in.nVertices THEN in.vertexRemap[k + 1] ELSE stray

\* the first n elements of vertexRemap, as vector::assign copies them
Assigned(in, n, stray) ==
    LET A[k \in 0..n] == IF k = 0 THEN <<>> ELSE Append(A[k - 1], RemapAt(in, k - 1, stray))
    IN  A[n]

\* the local vertexRemapping array (Tootle.cpp:203-231)
Remapping(in, stray) ==
    IF ~in.hasRemap THEN Iota(0, in.nCount)
    ELSE (IF in.nVertices >= in.nCount
          THEN Assigned(in, in.nCount, stray)
          ELSE Assigned(in, in.rSize, stray)) \o Iota(in.nVertices, in.nCount)

\* an element of vertexRemap past its nVertices entries is read
ReadsPastRemap(in) == in.hasRemap /\ in.nVertices < in.nCount /\ in.rSize > in.nVertices

\* vertexRemapping[i]; past the end the read yields some value
RemappingAt(vr, i, stray) == IF i < Len(vr) THEN vr[i + 1] ELSE stray

\* the loop that fills inverseVertexRemapping (Tootle.cpp:253-262); a write
\* past the nCount elements goes astray
Inverse(in, vr, stray) ==
    LET Inv[i \in 0..in.nCount] ==
            IF i = 0 THEN Zeros(in.nCount)
            ELSE LET nVID == RemappingAt(vr, i - 1, stray)
                 IN  IF nVID < in.nCount THEN [Inv[i - 1] EXCEPT ![nVID + 1] = i - 1]
                     ELSE Inv[i - 1]
    IN  Inv[in.nCount]

\* an index at or past the size of vertexRemapping or of
\* inverseVertexRemapping is used by the loops over 0 .. nCount - 1
BadIndex(in, vr) ==
    \/ Len(vr) < in.nCount
    \/ \E i \in 1..Len(vr) : i <= in.nCount /\ vr[i] >= in.nCount

\* the consistency test (Tootle.cpp:264-273)
Consistent(in, vr, inv, stray) ==
    \A i \in 0..(in.nCount - 1) :
        LET nVID == RemappingAt(vr, i, stray)
        IN  (IF nVID < in.nCount THEN inv[nVID + 1] ELSE stray) = i

EmitResult(in, stray) ==
    LET vr == Remapping(in, stray)
        inv == Inverse(in, vr, stray)
    IN  [ret |-> IF Consistent(in, vr, inv, stray) THEN "true" ELSE "false",
         vertexRemapping |-> vr,
         inverseVertexRemapping |-> inv,
         readsPastRemap |-> ReadsPastRemap(in),
         badIndex |-> BadIndex(in, vr)]

MainIdle ==
    /\ mainSettings = [viewpoints |-> FALSE, bMeasureOverdraw |-> FALSE,
                       bOptimizeVertexMemory |-> FALSE, algorithmChoice |-> "none"]
    /\ mainPc = "idle"
    /\ mainExit = -1
    /\ mainFailed = "none"

EmitIdle ==
    /\ vmStream = <<>>
    /\ emitIn = NoEmitArgs
    /\ emitOut = NotEmitted

SampleIdle == EmitIdle /\ MainIdle

\* a call of EmitModifiedObj about to be made: nCount vertex lines in the
\* input, a remap that is NULL or a permutation of nVertices ids, and
\* rVertices.size() loaded vertices
EmitInit ==
    /\ vmStream = <<>>
    /\ \E nCount \in EmitCounts, nVertices \in EmitCounts, rSize \in EmitCounts :
          \/ /\ nVertices = 0
             /\ emitIn = [nCount |-> nCount, nVertices |-> 0, hasRemap |-> FALSE,
                          vertexRemap |-> <<>>, rSize |-> rSize]
          \/ \E q \in Perms(nVertices) :
                emitIn = [nCount |-> nCount, nVertices |-> nVertices, hasRemap |-> TRUE,
                          vertexRemap |-> q, rSize |-> rSize]
    /\ emitOut = NotEmitted
    /\ MainIdle

\* the final index stream of a mesh of up to MaxV vertices, all of them
\* vertex lines of the input
RemapInit ==
    /\ \E n \in 1..MaxV :
          /\ vmStream \in {IndexStream(faces) : faces \in SeqsUpTo(Triangles(n), MaxT)}
          /\ emitIn = [nCount |-> n, nVertices |-> n, hasRemap |-> FALSE,
                       vertexRemap |-> <<>>, rSize |-> n]
    /\ emitOut = NotEmitted
    /\ MainIdle

\* TootleOptimizeVertexMemory(..., pnVertexRemapOut): the remap of the
\* final index stream is handed to EmitModifiedObj
TootleOptimizeVertexMemory ==
    /\ ~emitIn.hasRemap
    /\ emitOut = NotEmitted
    /\ emitIn' = [emitIn EXCEPT !.hasRemap = TRUE,
                                !.vertexRemap = VertexRemap(vmStream, emitIn.nVertices)]
    /\ UNCHANGED <<vmStream, emitOut, mainSettings, mainPc, mainExit, mainFailed>>
    /\ UNCHANGED <<meshVars, soupVars, odVars, optVars, callerVars, jrtVars, meterVars, tableVars, rcVars>>

\* bool EmitModifiedObj(rInput, rOutput, rVertices, rIndices, vertexRemap,
\* nVertices).  An access outside vertexRemap, vertexRemapping or
\* inverseVertexRemapping is undefined: the process faults, or a read
\* yields some value and a write is lost.
EmitModifiedObj ==
    /\ emitOut = NotEmitted
    /\ LET clean == EmitResult(emitIn, 0)
       IN  IF ~clean.readsPastRemap /\ ~clean.badIndex
           THEN emitOut' = clean
           ELSE \/ emitOut' = [clean EXCEPT !.ret = "fault"]
                \/ \E stray \in 0..emitIn.nCount : emitOut' = EmitResult(emitIn, stray)
    /\ UNCHANGED <<vmStream, emitIn, mainSettings, mainPc, mainExit, mainFailed>>
    /\ UNCHANGED <<meshVars, soupVars, odVars, optVars, callerVars, jrtVars, meterVars, tableVars, rcVars>>

\* the values of settings.algorithmChoice; "other" is any value the switch
\* of main has no case for
AlgorithmChoices == {"TOOTLE_VCACHE_ONLY", "TOOTLE_CLUSTER_VCACHE_OVERDRAW",
                     "TOOTLE_FAST_VCACHECLUSTER_OVERDRAW", "TOOTLE_OPTIMIZE",
                     "TOOTLE_FAST_OPTIMIZE", "other"}

\* the number of Tootle calls main makes in each case of its switch
\* (Tootle.cpp:945-1099)
OptimizeCalls(choice) ==
    CASE choice = "TOOTLE_VCACHE_ONLY" -> 1
      [] choice = "TOOTLE_CLUSTER_VCACHE_OVERDRAW" -> 3
      [] choice = "TOOTLE_FAST_VCACHECLUSTER_OVERDRAW" -> 2
      [] choice = "TOOTLE_OPTIMIZE" -> 1
      [] choice = "TOOTLE_FAST_OPTIMIZE" -> 1
      [] OTHER -> 0

\* main after ParseCommandLine
MainInit ==
    /\ mainSettings \in [viewpoints : BOOLEAN, bMeasureOverdraw : BOOLEAN,
                         bOptimizeVertexMemory : BOOLEAN,
                         algorithmChoice : AlgorithmChoices]
    /\ mainPc = "LoadGeometry"
    /\ mainExit = -1
    /\ mainFailed = "none"

\* if (bResult) { return 1; } return 0;   (Tootle.cpp:1205-1210)
ExitStatus(bResult) == IF bResult THEN 1 ELSE 0

\* one step of main: where the step applies its call succeeds and main goes
\* on, or the call fails and main returns 1; where it does not apply main
\* goes on
MainStep(pc, next, applies) ==
    /\ mainPc = pc
    /\ \/ /\ mainPc' = next
          /\ UNCHANGED <<mainExit, mainFailed>>
       \/ /\ applies
          /\ mainPc' = "done"
          /\ mainExit' = 1
          /\ mainFailed' = pc
    /\ UNCHANGED <<vmStream, emitIn, emitOut, mainSettings>>
    /\ UNCHANGED <<meshVars, soupVars, odVars, optVars, callerVars, jrtVars, meterVars, tableVars, rcVars>>

\* loader.LoadGeometry (Tootle.cpp:806-812)
MainLoadGeometry == MainStep("LoadGeometry", "LoadViewpoints", TRUE)

\* LoadViewpoints, when a viewpoint file was named (Tootle.cpp:838-845)
MainLoadViewpoints == MainStep("LoadViewpoints", "TootleInit", mainSettings.viewpoints)

\* TootleInit (Tootle.cpp:882-888)
MainTootleInit == MainStep("TootleInit", "MeasureCacheIn", TRUE)

\* TootleMeasureCacheEfficiency on the input (Tootle.cpp:891-897)
MainMeasureCacheIn == MainStep("MeasureCacheIn", "MeasureOverdrawIn", TRUE)

\* TootleMeasureOverdraw on the input (Tootle.cpp:899-910)
MainMeasureOverdrawIn ==
    MainStep("MeasureOverdrawIn", "Optimize", mainSettings.bMeasureOverdraw)

\* the switch on settings.algorithmChoice (Tootle.cpp:945-1099)
MainOptimize ==
    MainStep("Optimize", "MeasureCacheOut", OptimizeCalls(mainSettings.algorithmChoice) > 0)

\* TootleMeasureCacheEfficiency on the output (Tootle.cpp:1103-1109)
MainMeasureCacheOut == MainStep("MeasureCacheOut", "MeasureOverdrawOut", TRUE)

\* TootleMeasureOverdraw on the output (Tootle.cpp:1111-1124)
MainMeasureOverdrawOut ==
    MainStep("MeasureOverdrawOut", "OptimizeVertexMemory", mainSettings.bMeasureOverdraw)

\* TootleOptimizeVertexMemory (Tootle.cpp:1141-1176)
MainOptimizeVertexMemory ==
    MainStep("OptimizeVertexMemory", "EmitModifiedObj", mainSettings.bOptimizeVertexMemory)

\* the call of EmitModifiedObj and the return of main (Tootle.cpp:1194-1210)
MainEmitModifiedObj ==
    /\ mainPc = "EmitModifiedObj"
    /\ \E bResult \in BOOLEAN :
          /\ mainExit' = ExitStatus(bResult)
          /\ mainFailed' = IF bResult THEN "none" ELSE "EmitModifiedObj"
    /\ mainPc' = "done"
    /\ UNCHANGED <<vmStream, emitIn, emitOut, mainSettings>>
    /\ UNCHANGED <<meshVars, soupVars, odVars, optVars, callerVars, jrtVars, meterVars, tableVars, rcVars>>

RestIdle == JRTIdle /\ MeterIdle /\ TableIdle /\ RCIdle /\ SampleIdle

(***************************************************************************)
(* Specifications.                                                         *)
(***************************************************************************)
\* vertex-to-triangle and across-edge adjacency of one mesh
MeshNext == ComputeVT \/ ComputeAE
\* a mesh has been built; the soup statics, the overdraw module and the
\* optimizer are not in use
InitMesh == MeshInit /\ SoupIdle /\ ODIdle /\ OptIdle /\ CallerIdle /\ RestIdle
SpecMesh == InitMesh /\ [][MeshNext]_vars

\* the same calls on a mesh of proper triangles
InitProper == ProperMeshInit /\ SoupIdle /\ ODIdle /\ OptIdle /\ CallerIdle /\ RestIdle
SpecProper == InitProper /\ [][MeshNext]_vars

\* vertex-to-vertex adjacency of one mesh
VVNext == ComputeVV
SpecVV == InitMesh /\ [][VVNext]_vars

\* the adjacency calls of a mesh, at most one of them with an allocation
\* that fails
AllocNext ==
    \/ allocFailed = "none" /\ ComputeVT
    \/ allocFailed = "none" /\ ComputeVTFailing
    \/ allocFailed = "none" /\ ComputeAEFailing
    \/ allocFailed = "none" /\ ComputeVVFailing
SpecAlloc == InitMesh /\ [][AllocNext]_vars

\* two soups with equal contents and the calls of ComputeResolution on them
ResolutionNext == \E s \in Soups : \E force \in BOOLEAN : ComputeResolution(s, force)
InitResolution == MeshIdle /\ SoupInit /\ ODIdle /\ OptIdle /\ CallerIdle /\ RestIdle
SpecResolution == InitResolution /\ [][ResolutionNext]_vars

\* one soup whose triangle array the caller may empty between the calls
EmptiedNext ==
    \/ \E force \in BOOLEAN : ComputeResolution("a", force)
    \/ ClearTriangles("a")
SpecEmptied == InitResolution /\ [][EmptiedNext]_vars

\* the overdraw module driven through ODInit, ODSetSoup and the graph
\* computation
OverdrawNext ==
    \/ ODInit /\ UNCHANGED callerVars
    \/ \E pSoup \in {"a", "NULL"} : odInitCalled /\ ODSetSoup(pSoup) /\ UNCHANGED callerVars
    \/ ODComputeGraphRaytrace /\ UNCHANGED callerVars
InitOverdraw == MeshIdle /\ SoupIdle /\ ODInit0 /\ OptIdle /\ CallerIdle /\ RestIdle
SpecOverdraw == InitOverdraw /\ [][OverdrawNext]_vars

\* the exported functions of the overdraw module called in any order on
\* soups that hold triangles
GraphNext ==
    \/ ODInit /\ UNCHANGED callerVars
    \/ \E pSoup \in Soups \cup {"NULL"} : ODSetSoup(pSoup) /\ UNCHANGED callerVars
    \/ \E size \in 0..MaxT : \E optimizer \in Optimizers :
          ODOverdrawGraph(size, optimizer) /\ UNCHANGED callerVars
InitGraph == MeshIdle /\ SoupInit /\ ODInit0 /\ OptIdle /\ CallerIdle /\ RestIdle
SpecGraph == InitGraph /\ [][GraphNext]_vars

\* the module asked whether it is initialised, before and after ODInit
QueryNext ==
    \/ ODInit /\ UNCHANGED callerVars
    \/ ODIsInitialized /\ UNCHANGED callerVars
    \/ \E pSoup \in Soups \cup {"NULL"} : ODSetSoup(pSoup) /\ UNCHANGED callerVars
SpecQuery == InitGraph /\ [][QueryNext]_vars

\* two threads, each setting its soup and then computing the graph
CallersNext == \E c \in Callers : CallerSetSoup(c) \/ CallerComputeGraph(c)
InitCallers ==
    /\ MeshIdle /\ SoupIdle /\ ODIdle /\ OptIdle /\ RestIdle
    /\ callerPc = [c \in Callers |-> "start"]
    /\ graphCaller = "none"
SpecCallers == InitCallers /\ [][CallersNext]_vars

\* TootleOptimize run stage by stage on one index buffer
OptimizeNext ==
    \/ \E C \in Assignments(Len(pnIB)) : TootleClusterMesh(C)
    \/ \E perm \in ClusterPerms(faceClusters) : TootleVCacheClusters(perm)
    \/ \E rays \in SeqsUpTo(Rays(Len(pnIB)), MaxRays) : TootleOptimizeOverdraw(rays)
    \/ TootleOptimizeFails
InitOptimize == MeshIdle /\ SoupIdle /\ ODIdle /\ OptInit /\ CallerIdle /\ RestIdle
SpecOptimize == InitOptimize /\ [][OptimizeNext]_vars

\* the triangle numbers handed to RemoveTriangle: inside, at and past the
\* count, and the largest unsigned value
RemoveArgs == {UInt(n) : n \in 0..(MaxT + 1)} \cup {<<Word - 1, Word - 1>>}

\* a mesh built by CreateMesh, transformed and shrunk
JRTNext ==
    \/ \E nTri \in RemoveArgs : RemoveTriangle(nTri)
    \/ \E X \in Transforms : Transform(X)

InitJRT ==
    /\ MeshIdle /\ SoupIdle /\ ODIdle /\ OptIdle /\ CallerIdle
    /\ CreateMesh /\ MeterIdle /\ TableIdle /\ RCIdle /\ SampleIdle
SpecJRT == InitJRT /\ [][JRTNext]_vars

\* the mesh sizes that leave a third triangle beside the two exchanged
RemoveSizes == {2, 3}

\* triangles removed one after the other, each below the count
RemoveNext ==
    \E nTri \in RemoveArgs : ULess(nTri, m_nTriangleCount) /\ RemoveTriangle(nTri)

InitRemove ==
    /\ MeshIdle /\ SoupIdle /\ ODIdle /\ OptIdle /\ CallerIdle
    /\ (\E n \in RemoveSizes : CreateMeshOf(n)) /\ MeterIdle /\ TableIdle /\ RCIdle /\ SampleIdle
SpecRemove == InitRemove /\ [][RemoveNext]_vars

\* objects that call CreateArrays once, without failure, then share, fill
\* and destroy their arrays
ShareNext ==
    \/ \E o \in Objs : objState[o] = "new" /\ CreateArrays(o, 0)
    \/ \E o, from \in Objs, f, g \in FieldSet :
          objState[o] = "created" /\ objState[from] = "created" /\ SetArray(o, f, from, g)
    \/ \E o \in Objs, f \in FieldSet, n \in ArraySizes :
          objState[o] = "created" /\ ResizeArray(o, f, n)
    \/ \E soup \in Objs :
          objState[soup] = "created" /\ objState["mesh"] = "created" /\ SoupToMesh(soup, "mesh")
    \/ \E o \in Objs : Destroy(o)

InitShare ==
    /\ MeshIdle /\ SoupIdle /\ ODIdle /\ OptIdle /\ CallerIdle
    /\ JRTIdle /\ MeterIdle /\ TableIdle /\ RCInit /\ SampleIdle
SpecShare == InitShare /\ [][ShareNext]_vars

\* the allocation of CreateArrays that fails: none, the first (pt, in
\* Soup::CreateArrays) or one part-way through Cloud::CreateArrays
CreateFailures == {0, 1, 3}

\* what fails in MakeSoup: nothing, CreateArrays part-way, or a Resize
MakeSoupFailures == {0, 3, Len(Fields) + 1, Len(Fields) + 2}

\* the same objects with CreateArrays and MakeSoup called any number of
\* times, with allocations that may fail
ArraysNext ==
    \/ \E o \in Objs, failAt \in CreateFailures : CreateArrays(o, failAt)
    \/ \E o \in Objs, failAt \in MakeSoupFailures : MakeSoup(o, 1, 1, failAt)
    \/ \E o, from \in Objs, f, g \in FieldSet : SetArray(o, f, from, g)
    \/ \E soup \in Objs : SoupToMesh(soup, "mesh")
    \/ \E o \in Objs : Destroy(o)

SpecArrays == InitShare /\ [][ArraysNext]_vars

\* EmitModifiedObj on every combination of its arguments
EmitNext == EmitModifiedObj

InitEmit ==
    /\ MeshIdle /\ SoupIdle /\ ODIdle /\ OptIdle /\ CallerIdle
    /\ JRTIdle /\ MeterIdle /\ TableIdle /\ RCIdle /\ EmitInit
SpecEmit == InitEmit /\ [][EmitNext]_vars

\* the remap of a final index stream computed and handed to EmitModifiedObj
RemapNext == TootleOptimizeVertexMemory \/ EmitModifiedObj

InitRemap ==
    /\ MeshIdle /\ SoupIdle /\ ODIdle /\ OptIdle /\ CallerIdle
    /\ JRTIdle /\ MeterIdle /\ TableIdle /\ RCIdle /\ RemapInit
SpecRemap == InitRemap /\ [][RemapNext]_vars

\* main from the parsed command line to its return
MainNext ==
    \/ MainLoadGeometry
    \/ MainLoadViewpoints
    \/ MainTootleInit
    \/ MainMeasureCacheIn
    \/ MainMeasureOverdrawIn
    \/ MainOptimize
    \/ MainMeasureCacheOut
    \/ MainMeasureOverdrawOut
    \/ MainOptimizeVertexMemory
    \/ MainEmitModifiedObj

InitMain ==
    /\ MeshIdle /\ SoupIdle /\ ODIdle /\ OptIdle /\ CallerIdle
    /\ JRTIdle /\ MeterIdle /\ TableIdle /\ RCIdle /\ EmitIdle /\ MainInit
SpecMain == InitMain /\ [][MainNext]_vars

\* the meter applied to every index buffer
MeterNext == TootleMeasureCacheEfficiency

InitMeter ==
    /\ MeshIdle /\ SoupIdle /\ ODIdle /\ OptIdle /\ CallerIdle
    /\ JRTIdle /\ MeterInit /\ TableIdle /\ RCIdle /\ SampleIdle
SpecMeter == InitMeter /\ [][MeterNext]_vars

\* the ray tracer filling the table of every cluster array
TableNext == CalculateOverdraw

InitTable ==
    /\ MeshIdle /\ SoupIdle /\ ODIdle /\ OptIdle /\ CallerIdle
    /\ JRTIdle /\ MeterIdle /\ TableInit /\ RCIdle /\ SampleIdle
SpecTable == InitTable /\ [][TableNext]_vars

(***************************************************************************)
(* Properties of the mesh adjacency.                                       *)
(***************************************************************************)
Faces == 0..(Len(t) - 1)
Slots == 0..(NumSlots - 1)

\* number of slots of triangle f that hold vertex v
SlotCount(f, v) == Cardinality({i \in Slots : Tri(f, i) = v})

IsNonDecreasing(seq) == \A i \in 1..(Len(seq) - 1) : seq[i] <= seq[i + 1]

SharesVertex(f, g) == \E i, k \in Slots : Tri(f, i) = Tri(g, k)

\* a triangle with a repeated vertex index
IsDegenerate(f) == \E i, k \in Slots : i # k /\ Tri(f, i) = Tri(f, k)

\* C2: after ComputeVT and ComputeAE have succeeded, VT has n_v entries, AE
\* has n_t entries and no AE[t] contains t itself.
C2_AdjacencySizesNoSelf ==
    (vtRet = 1 /\ aeRet = 1) =>
        /\ Len(vt) = nv
        /\ Len(ae) = Len(t)
        /\ \A f \in Faces : Occ(ae[f + 1], f) = 0

\* a degenerate triangle listed twice in the VT of its vertex, with neighbours
C2_Witness ==
    /\ vtRet = 1
    /\ aeRet = 1
    /\ \E f \in Faces :
          /\ Occ(vt[Tri(f, 0) + 1], f) >= 2
          /\ Len(ae[f + 1]) > 0

\* what ComputeAE is to emit for the directed edge (a, b) of triangle f:
\* the entries of VT[a] other than f, in VT[a] order, each once per slot
\* that holds b
EdgeEmission(f, a, b) ==
    LET list == vt[a + 1]
        upTo[j \in 0..Len(list)] ==
            IF j = 0 THEN <<>>
            ELSE upTo[j - 1] \o
                 (IF list[j] = f THEN <<>>
                  ELSE [p \in 1..SlotCount(list[j], b) |-> list[j]])
    IN  upTo[Len(list)]

EdgeCount(f, g, a, b) == Occ(vt[a + 1], g) * SlotCount(g, b)

\* C3: starting from an empty AE, AE[t] is the emission of the three
\* directed edges of t in order, and t' occurs in it as often as the sum
\* over the edges (a, b) of (occurrences of t' in VT[a]) x (slots of t'
\* equal to b), never for t' = t.
C3_AEEmission ==
    (aeRet = 1 /\ aeIn = <<>>) =>
        \A f \in Faces :
            /\ ae[f + 1] = EdgeEmission(f, Tri(f, 0), Tri(f, 1))
                               \o EdgeEmission(f, Tri(f, 1), Tri(f, 2))
                               \o EdgeEmission(f, Tri(f, 2), Tri(f, 0))
            /\ \A g \in Faces :
                  Occ(ae[f + 1], g) =
                      IF g = f THEN 0
                      ELSE EdgeCount(f, g, Tri(f, 0), Tri(f, 1))
                             + EdgeCount(f, g, Tri(f, 1), Tri(f, 2))
                             + EdgeCount(f, g, Tri(f, 2), Tri(f, 0))
            /\ \A p \in 1..Len(ae[f + 1]) : ae[f + 1][p] \in Faces

\* a neighbour emitted more than once for one edge
C3_Witness ==
    /\ aeRet = 1
    /\ aeIn = <<>>
    /\ \E f, g \in Faces :
          /\ g # f
          /\ EdgeCount(f, g, Tri(f, 0), Tri(f, 1)) >= 2
          /\ Occ(ae[f + 1], g) >= 3

\* C4: every entry of AE[t] is a triangle of the mesh that shares a vertex
\* index with t.
C4_AESharesVertex ==
    aeRet = 1 =>
        \A f \in Faces : \A p \in 1..Len(ae[f + 1]) :
            /\ ae[f + 1][p] \in Faces
            /\ SharesVertex(f, ae[f + 1][p])

\* a degenerate triangle with a neighbour
C4_Witness ==
    /\ aeRet = 1
    /\ \E f \in Faces : IsDegenerate(f) /\ Len(ae[f + 1]) > 0

\* C5: starting from an empty vtOut, every VT[v] is non-decreasing and
\* holds triangle t once per slot of t that is v.
C5_VTContents ==
    (vtRet = 1 /\ vtIn = <<>>) =>
        /\ Len(vt) = nv
        /\ \A v \in Verts(nv) :
              /\ IsNonDecreasing(vt[v + 1])
              /\ \A f \in Faces : Occ(vt[v + 1], f) = SlotCount(f, v)
              /\ \A p \in 1..Len(vt[v + 1]) : vt[v + 1][p] \in Faces

\* one vertex listed twice by a triangle, another used by no triangle
C5_Witness ==
    /\ vtRet = 1
    /\ vtIn = <<>>
    /\ \E v \in Verts(nv) : \E f \in Faces : Occ(vt[v + 1], f) = 2
    /\ \E v \in Verts(nv) : vt[v + 1] = <<>>
    /\ Len(t) = MaxT

\* number of (triangle, slot i, slot j # i) with t[i] = v and t[j] = u
PairCount(v, u) ==
    Cardinality({x \in Faces \X Slots \X Slots :
                    /\ x[2] # x[3]
                    /\ Tri(x[1], x[2]) = v
                    /\ Tri(x[1], x[3]) = u})

SlotsHolding(v) == Cardinality({x \in Faces \X Slots : Tri(x[1], x[2]) = v})

\* C6: on a mesh whose vv was empty, VV has n_v entries, u occurs in VV[v]
\* once per (triangle, slot i, slot j # i) with t[i] = v and t[j] = u, as
\* often as v occurs in VV[u], and |VV[v]| is twice the slots holding v.
C6_VVContents ==
    (vvRet = 1 /\ vvIn = <<>>) =>
        /\ Len(vv) = nv
        /\ \A v \in Verts(nv) :
              /\ Len(vv[v + 1]) = 2 * SlotsHolding(v)
              /\ \A u \in Verts(nv) :
                    /\ Occ(vv[v + 1], u) = PairCount(v, u)
                    /\ Occ(vv[v + 1], u) = Occ(vv[u + 1], v)
              /\ \A p \in 1..Len(vv[v + 1]) : vv[v + 1][p] \in Verts(nv)

\* a degenerate triangle, which makes a vertex its own neighbour
C6_Witness ==
    /\ vvRet = 1
    /\ vvIn = <<>>
    /\ \E v \in Verts(nv) : Occ(vv[v + 1], v) > 0
    /\ \E u, v \in Verts(nv) : u # v /\ Occ(vv[v + 1], u) >= 2

(***************************************************************************)
(* Properties of ComputeResolution.                                        *)
(***************************************************************************)
Called == res.soup # "none"

\* the squared edge lengths of the triangles sampled by the last call
RECURSIVE SampleList(_)
SampleList(js) ==
    IF js = <<>> THEN <<>>
    ELSE LET tj == pt[res.soup][Head(js) + 1]
         IN  <<Norm2(tj[1], tj[2]), Norm2(tj[2], tj[3]), Norm2(tj[3], tj[1])>>
                 \o SampleList(Tail(js))

\* the element of rank Len / 2 of the sorted samples
Median(list) == SortSeq(list, LAMBDA x, y : x < y)[(Len(list) \div 2) + 1]

\* C7: a call that samples a soup of at least two triangles returns the
\* square root of the median of the sampled squared edge lengths.
C7_ReturnsMedian ==
    (Called /\ res.path = "sampled" /\ res.nf >= 2) =>
        /\ Len(res.js) = NSamp(res.nf)
        /\ res.resolution * res.resolution = Median(SampleList(res.js))

\* C27: a call on a soup of at least one triangle that does not take the
\* stored value selects its result from a sample slot that lies within the
\* storage it reserved and that it wrote during the call.
C27_ReadsWrittenSample ==
    (Called /\ res.nf >= 1 /\ res.path \in {"sampled", "fault"}) =>
        /\ res.path = "sampled"
        /\ Readable(res.samples, res.samples.size \div 2)

\* C8: on a soup without triangles the call succeeds, outputs the stored
\* r (-1 if the soup never computed one, else the value last computed)
\* and leaves r as it was, whatever force is.
C8_EmptySoupStoredValue ==
    (Called /\ res.nf < 1) =>
        /\ res.ok = 1
        /\ res.path = "stored"
        /\ res.resolution = res.rBefore
        /\ r[res.soup] = res.rBefore
        /\ res.resolution = IF computed[res.soup] = <<>> THEN -1
                             ELSE computed[res.soup][1]

\* a forced call on an emptied soup that had computed a resolution before
C8_Witness ==
    /\ Called
    /\ res.nf < 1
    /\ res.force
    /\ res.ok = 1
    /\ res.resolution > 0

\* the k-th value of the generator started from seed 0
RECURSIVE LCGFromSeed(_)
LCGFromSeed(k) == IF k = 0 THEN <<0, 0>> ELSE LCG(LCGFromSeed(k - 1))

\* C9: every sampling call draws its k-th triangle as LCG^k(0) mod n_t,
\* and two soups of equal contents get the same resolution.
C9_CallScopedSampling ==
    /\ (Called /\ res.path = "sampled" /\ res.nf >= 2) =>
           \A k \in 1..Len(res.js) : res.js[k] = RandIndex(LCGFromSeed(k), res.nf)
    /\ (pt["a"] = pt["b"] /\ Len(pt["a"]) >= 2 /\ computed["a"] # <<>> /\ computed["b"] # <<>>) =>
           computed["a"] = computed["b"]

(***************************************************************************)
(* Properties of the overdraw graph.                                       *)
(***************************************************************************)
Clusters == 0..(Len(fullgraph) - 1)

\* {(i, j, O[i][j] - O[j][i]) : O[i][j] > O[j][i]}
GraphOfTable ==
    {Edge(c[1], c[2], Cell(fullgraph, c[1], c[2]) - Cell(fullgraph, c[2], c[1])) :
        c \in {d \in Clusters \X Clusters :
                  Cell(fullgraph, d[1], d[2]) > Cell(fullgraph, d[2], d[1])}}

\* what the last graph computation appended to rGraphOut
Appended == SubSeq(rGraphOut, Len(graphIn) + 1, Len(rGraphOut))

RowMajor(e1, e2) == e1.from < e2.from \/ (e1.from = e2.from /\ e1.to < e2.to)

\* C10: on TOOTLE_OK the edges appended to rGraphOut are exactly the edges
\* (i, j, O[i][j] - O[j][i]) with O[i][j] > O[j][i], each once, in
\* row-major order; so costs are positive, there is no self-loop and no
\* pair of opposite edges.
C10_GraphOfTable ==
    odRet.code = "TOOTLE_OK" =>
        /\ SubSeq(rGraphOut, 1, Len(graphIn)) = graphIn
        /\ {Appended[p] : p \in 1..Len(Appended)} = GraphOfTable
        /\ Len(Appended) = Cardinality(GraphOfTable)
        /\ \A p, q \in 1..Len(Appended) : p < q => RowMajor(Appended[p], Appended[q])
        /\ \A p \in 1..Len(Appended) :
              /\ Appended[p].cost > 0
              /\ Appended[p].from # Appended[p].to
              /\ \A q \in 1..Len(Appended) :
                    ~(Appended[q].from = Appended[p].to /\ Appended[q].to = Appended[p].from)

\* a table with a non-zero diagonal whose graph has several edges, one of
\* them with a cost that is a proper difference, appended to an edge array
\* that was not empty
C10_Witness ==
    /\ odRet.code = "TOOTLE_OK"
    /\ graphIn # <<>>
    /\ Len(Appended) >= 2
    /\ \E i \in Clusters : Cell(fullgraph, i, i) > 0
    /\ \E p \in 1..Len(Appended) :
          /\ Cell(fullgraph, Appended[p].to, Appended[p].from) > 0
          /\ Appended[p].cost = 1

(***************************************************************************)
(* Properties of TootleOptimize.                                           *)
(***************************************************************************)
\* the unordered vertex triple of a face: how often it holds each vertex
Unordered(face) == [v \in Verts(NumSlots) |-> Occ(face, v)]

\* how many faces of T have the unordered triple u
TripleCount(T, u) == Cardinality({i \in 1..Len(T) : Unordered(T[i]) = u})

\* C1: the index array returned by a successful optimize is a permutation of
\* the input triangles: every unordered vertex triple occurs as often in
\* the output as in the input.
C1_OptimizePermutes ==
    optRet = "TOOTLE_OK" =>
        /\ Len(pnIB) = Len(pnIBIn)
        /\ \A i \in 1..Len(pnIBIn) :
              TripleCount(pnIB, Unordered(pnIBIn[i])) = TripleCount(pnIBIn, Unordered(pnIBIn[i]))
        /\ \A i \in 1..Len(pnIB) :
              TripleCount(pnIB, Unordered(pnIB[i])) = TripleCount(pnIBIn, Unordered(pnIB[i]))

\* three faces, two of them with the same triple, in clusters of different
\* sizes that are drawn in another order than their ids, and moved
C1_Witness ==
    /\ optRet = "TOOTLE_OK"
    /\ Len(pnIBIn) = 3
    /\ nNumClusters = 2
    /\ clusterOrder = <<1, 0>>
    /\ pnIB # pnIBIn
    /\ \E i, j \in 1..3 : pnIBIn[i] # pnIBIn[j] /\ Unordered(pnIBIn[i]) = Unordered(pnIBIn[j])
    /\ \E i, j \in 1..3 : Unordered(pnIBIn[i]) # Unordered(pnIBIn[j])

(***************************************************************************)
(* Properties of the exported overdraw functions.                          *)
(***************************************************************************)
GraphRequested == odCall.fn = "ODOverdrawGraph"

\* C11: a ray-traced graph requested after ODInit and ODSetSoup with a soup,
\* for a cluster array of the soup's size, passes the initialisation test:
\* it returns TOOTLE_OK or TOOTLE_OUT_OF_MEMORY; and the initialisation
\* test rejects a request only if ODInit was not called or no soup is set.
C11_InitialisedGraphAccepted ==
    GraphRequested =>
        /\ (/\ odCall.init
            /\ odCall.soup # "NULL"
            /\ odCall.optimizer = "TOOTLE_OVERDRAW_RAYTRACE"
            /\ odCall.size = Len(pt[odCall.soup]))
              => odRet.code \in {"TOOTLE_OK", "TOOTLE_OUT_OF_MEMORY"}
        /\ odRet.stage = "initialisation" => (~odCall.init \/ odCall.soup = "NULL")

\* C12: ODIsInitialized returns true exactly when ODInit has been called
\* and has returned successfully.
C12_IsInitializedTracksInit ==
    isInit.asked => (isInit.ret <=> isInit.init)

\* C13 as stated: a graph requested while no soup is set fails with
\* TOOTLE_NOT_INITIALIZED and leaves rGraphOut as it was.
C13_NoSoupNotInitialized ==
    (GraphRequested /\ odCall.soup = "NULL") =>
        /\ odRet.code = "TOOTLE_NOT_INITIALIZED"
        /\ rGraphOut = graphIn

\* C13: a graph requested while no soup is set fails with
\* TOOTLE_INTERNAL_ERROR and leaves rGraphOut as it was.
C13_NoSoupInternalError ==
    (GraphRequested /\ odCall.soup = "NULL") =>
        /\ odRet.code = "TOOTLE_INTERNAL_ERROR"
        /\ odRet.stage = "initialisation"
        /\ rGraphOut = graphIn

\* a ray-traced graph requested after ODInit for an edge array that is not
\* empty, ODSetSoup having been called with NULL
C13_Witness ==
    /\ GraphRequested
    /\ odCall.soup = "NULL"
    /\ odCall.init
    /\ odCall.optimizer = "TOOTLE_OVERDRAW_RAYTRACE"
    /\ graphIn # <<>>
    /\ odRet.code = "TOOTLE_INTERNAL_ERROR"

\* C14: a graph computation that returns TOOTLE_OUT_OF_MEMORY leaves
\* rGraphOut with the contents it had on entry.
C14_NoMemoryLeavesGraph ==
    odRet.code = "TOOTLE_OUT_OF_MEMORY" => rGraphOut = graphIn

\* C18: the graph computation a thread starts after setting its soup reads
\* that soup, whatever the other thread does in between.
C18_CallersIndependent ==
    graphCaller # "none" => soupRead = SoupOf(graphCaller)

(***************************************************************************)
(* Properties of JRTMesh.                                                  *)
(***************************************************************************)
Removed == jrtCall.fn = "RemoveTriangle"

\* C16: RemoveTriangle(nTri) has an effect only when nTri is below the
\* triangle count: for nTri at or past the count the count, the triangle
\* array and the face-normal array are unchanged and no element outside the
\* arrays is read or written, and the unsigned count never wraps below zero.
C16_RemoveOnlyBelowCount ==
    /\ ULeq(m_nTriangleCount, UInt(Len(m_pTriangles)))
    /\ (Removed /\ ~ULess(jrtCall.nTri, jrtCall.count)) =>
          /\ m_nTriangleCount = jrtCall.count
          /\ m_pTriangles = jrtCall.triangles
          /\ m_pFaceNormals = jrtCall.normals
          /\ ~jrtCall.outside
          /\ ~jrtFault

Transformed == jrtCall.fn = "Transform"

\* C17: after Transform(X, Xinv) on a mesh without per-vertex normals each
\* face normal is the inverse-transpose transform of the value it had
\* before the call.
C17_FaceNormalsTransformed ==
    (Transformed /\ m_pNormals = "NULL") =>
        \A i \in 1..Len(m_pFaceNormals) :
            m_pFaceNormals[i] = TransformVector(jrtCall.normals[i], Transpose(jrtCall.X.inv))

\* the (triangle, face normal) pairs of the first n positions of two arrays
Pairs(triangles, normals, n) == [i \in 1..n |-> <<triangles[i], normals[i]>>]

LivePairs == Pairs(m_pTriangles, m_pFaceNormals, m_nTriangleCount[2])

AllPairs == Triangles(SoupVerts) \X Vectors

\* C23: after RemoveTriangle(n) with n below the count, on a mesh without
\* per-vertex normals, the count is one less, the triangle formerly last
\* sits at position n, the removed one has left the live range, every other
\* live position holds the triangle and the face normal it held before, and
\* after any sequence of such removals the live pairs are the pairs
\* CreateMesh stored minus the removed ones.
C23_RemoveKeepsPairs ==
    Removed =>
        LET n == jrtCall.nTri[2] + 1
            old == jrtCall.count[2]
            before == Pairs(jrtCall.triangles, jrtCall.normals, old)
        IN  /\ ~jrtFault /\ ~jrtCall.outside
            /\ m_nTriangleCount = UInt(old - 1)
            /\ \A i \in 1..(old - 1) :
                  LivePairs[i] = IF i = n THEN before[old] ELSE before[i]
            /\ <<m_pTriangles[old], m_pFaceNormals[old]>> = before[n]
            /\ \A q \in AllPairs :
                  /\ Occ(LivePairs, q) + (IF q = before[n] THEN 1 ELSE 0) = Occ(before, q)
                  /\ Occ(LivePairs, q) + Occ(jrtLog.removed, q)
                        = Occ(Pairs(jrtLog.triangles, jrtLog.normals, Len(jrtLog.triangles)), q)

\* two removals, the first of which moved the last triangle over the
\* removed one and left a third one in place
C23_Witness ==
    /\ Removed
    /\ Len(jrtLog.removed) = 2
    /\ Len(jrtLog.triangles) = 3
    /\ jrtLog.removed[1] = <<jrtLog.triangles[1], jrtLog.normals[1]>>
    /\ jrtLog.triangles[1] # jrtLog.triangles[3]
    /\ jrtLog.normals[1] # jrtLog.normals[3]
    /\ LivePairs = <<<<jrtLog.triangles[2], jrtLog.normals[2]>>>>
        \/ LivePairs = <<<<jrtLog.triangles[3], jrtLog.normals[3]>>>>

(***************************************************************************)
(* Properties of the Soup and Mesh objects and their arrays.               *)
(***************************************************************************)
\* how many pointer fields of objects refer to array id
Refs(id) == Cardinality({p \in Objs \X FieldSet : ptr[p[1]][p[2]] = id})

Shared == rcCall.fn = "SoupToMesh"

\* the arrays of both objects of the call had been created
SharedCreated ==
    \A o \in {rcCall.obj[1], rcCall.obj[2]} : \A f \in FieldSet : rcCall.ptr[o][f] # 0

\* C24: SoupToMesh on objects whose arrays have been created returns 1,
\* makes the mesh refer to each of the soup's five arrays that is not empty
\* and leaves the mesh's own array in place where the soup's is empty,
\* empties the mesh's ae and vv, and changes neither the soup's pointers
\* nor the contents of any array.
C24_SoupToMeshShares ==
    (Shared /\ SharedCreated) =>
        LET soup == rcCall.obj[1]
            mesh == rcCall.obj[2]
        IN  /\ rcCall.ret = 1
            /\ ~rcFault
            /\ \A f \in FieldSet :
                  ptr[mesh][f] = IF rcCall.heap[rcCall.ptr[soup][f]].size > 0
                                 THEN rcCall.ptr[soup][f]
                                 ELSE rcCall.ptr[mesh][f]
            /\ meshAdj = [ae |-> <<>>, vv |-> <<>>]
            /\ soup # mesh => ptr[soup] = rcCall.ptr[soup]
            /\ Len(heap) = Len(rcCall.heap)
            /\ \A id \in 1..Len(heap) : heap[id].size = rcCall.heap[id].size

\* the mesh, which had adjacency, took a filled array from the soup and kept
\* its own where the soup's was empty; its former array has been deleted
C24_Witness ==
    /\ Shared /\ SharedCreated
    /\ rcCall.obj = <<"soup", "mesh">>
    /\ rcCall.adj.ae # <<>>
    /\ ptr["mesh"]["pv"] = ptr["soup"]["pv"]
    /\ ptr["mesh"]["pn"] # ptr["soup"]["pn"]
    /\ heap[rcCall.ptr["mesh"]["pv"]].deleted = 1

\* C25: when every object calls CreateArrays once and then setters,
\* SoupToMesh and destructors run in any order, every live array's count is
\* the number of pointer fields that refer to it, an array is deleted
\* exactly when that number drops to zero, no object holds a pointer to a
\* deleted array, and no array is deleted twice.
C25_CountIsReferences ==
    /\ ~rcFault
    /\ \A id \in 1..Len(heap) :
          /\ heap[id].deleted <= 1
          /\ heap[id].deleted = 0 => heap[id].count = Refs(id)
          /\ heap[id].deleted = 1 <=> Refs(id) = 0

\* a filled array that a setter made two fields of one object refer to is
\* deleted when that object, the last one, is destroyed
C25_Witness ==
    /\ \A o \in Objs : objState[o] = "dead"
    /\ rcSteps >= 1
    /\ rcCall.fn = "Destroy"
    /\ \E id \in 1..Len(heap) :
          /\ rcCall.heap[id].count = 2
          /\ heap[id].deleted = 1
          /\ rcCall.heap[id].size > 0

\* C28: once every object has been destroyed every array allocated by
\* CreateArrays has been deleted exactly once, whatever calls were made
\* before, CreateArrays or MakeSoup called more than once on one object and
\* CreateArrays failing part-way included.
C28_AllArraysDeleted ==
    (\A o \in Objs : objState[o] = "dead") =>
        \A id \in 1..Len(heap) : heap[id].deleted = 1

(***************************************************************************)
(* Properties of the sample program.                                       *)
(***************************************************************************)
Emitted == emitOut # NotEmitted

C29_RemappingHasCountEntries ==
    (Emitted /\ emitIn.hasRemap) =>
        /\ emitOut.ret # "fault"
        /\ Len(emitOut.vertexRemapping) = emitIn.nCount
        /\ ~emitOut.readsPastRemap
        /\ ~emitOut.badIndex

\* C30: main returns exit status 0 exactly when every step succeeded, the
\* final EmitModifiedObj included, and a non-zero status whenever loading, a
\* Tootle call or EmitModifiedObj fails.
C30_ExitZeroIffAllSucceeded ==
    mainPc = "done" => (mainExit = 0 <=> mainFailed = "none")

(***************************************************************************)
(* Properties of the cache-efficiency meter.                               *)
(***************************************************************************)
Measured == meterRet # NotMeasured

\* the vertices the index buffer refers to
Referenced == {meterIB[f][i] : f \in 1..Len(meterIB), i \in 1..NumSlots}

\* C19 as stated: the meter returns a value in [1.0, 3.0], that is
\* n_t <= vertex_fetches <= 3 n_t, for every index buffer.
C19_MeterBetweenOneAndThree ==
    Measured =>
        /\ meterRet.faces <= meterRet.fetches
        /\ meterRet.fetches <= NumSlots * meterRet.faces

\* C19: the meter returns a value in (0, 3.0]: every referenced vertex is
\* fetched at least once and no index costs more than one fetch, that is
\* 1 <= referenced vertices <= vertex_fetches <= 3 n_t.
C19_MeterAtMostThree ==
    Measured =>
        /\ meterRet.faces = Len(meterIB)
        /\ 1 <= Cardinality(Referenced)
        /\ Cardinality(Referenced) <= meterRet.fetches
        /\ meterRet.fetches <= NumSlots * meterRet.faces

\* a full cache has pushed out a vertex that the stream then fetched again
C19_Witness ==
    /\ Measured
    /\ meterRet.fetches > Cardinality(Referenced)
    /\ meterRet.fetches > cacheSize

(***************************************************************************)
(* Properties of the overdraw table.                                       *)
(***************************************************************************)
Traced == overdrawTable # <<>>

TableClusters == 1..NumClustersOf(rayClusters)

\* some ray hits two faces of one cluster
SameClusterHit ==
    \E k \in 1..Len(raysTraced) : \E a, b \in 1..Len(raysTraced[k]) :
        a < b /\ rayClusters[raysTraced[k][a]] = rayClusters[raysTraced[k][b]]

C22_AECleanedFirst ==
    aeRet = 1 => \A f \in Faces : ae[f + 1] = AEFace(vt, f)

\* the vertices two triangles have in common
SharedVerts(f, g) == {Tri(f, i) : i \in Slots} \cap {Tri(g, i) : i \in Slots}

\* C26: in a mesh whose triangles have three distinct vertex indices, t'
\* occurs in AE[t] as often as t occurs in AE[t'].
C26_AESymmetric ==
    aeRet = 1 =>
        \A f, g \in Faces : Occ(ae[f + 1], g) = Occ(ae[g + 1], f)

\* two triangles across one edge, each listed once by the other
C26_Witness ==
    /\ aeRet = 1
    /\ aeIn = <<>>
    /\ \E f, g \in Faces :
          /\ Cardinality(SharedVerts(f, g)) = 2
          /\ Occ(ae[f + 1], g) = 1
          /\ Occ(ae[g + 1], f) = 1

(***************************************************************************)
(* Properties of the adjacency calls under allocation failure.             *)
(***************************************************************************)
\* C15: an adjacency call during which an allocation fails returns 0.
C15_AllocationFailureReported ==
    /\ allocFailed = "ComputeVT" => vtRet = 0
    /\ allocFailed = "ComputeVV" => vvRet = 0
    /\ allocFailed = "ComputeAE" => aeRet = 0

====
